---------------------------- MODULE Spec2Model ----------------------------
(***************************************************************************)
(* Asset-creation workflow of the laboratory asset manager: the PyQt main  *)
(* window (load/capture -> analyze -> edit -> save to elabFTW -> QR code), *)
(* the LLM worker thread and the LLM backends' reply handling.             *)
(*                                                                         *)
(* Text is modelled as a sequence of atoms.  An atom is one punctuation    *)
(* character, one white-space character, one digit or one whole word, so   *)
(* that json.dumps / json.loads, str.strip, str.lower, str.find are real   *)
(* computations on sequences.  A Python str is a sequence of atoms.        *)
(***************************************************************************)
EXTENDS Naturals, Integers, Sequences, FiniteSets, Bags, TLC

(***************************************************************************)
(* Bounds of the model.                                                    *)
(***************************************************************************)
MaxThreads == 2     \* LLMProcessThread objects alive at the same time
MaxCreate  == 2     \* records one run creates in the inventory

(***************************************************************************)
(* Atoms of text.                                                          *)
(***************************************************************************)
QUOTE == "\""
NL    == "\n"
SP    == " "
ESCQ  == "\\\""     \* the two characters backslash, quote
ESCN  == "\\n"      \* the two characters backslash, n
Digits == {"0", "5"}

(***************************************************************************)
(* JSON values as json.loads builds them.  One record shape for all kinds: *)
(*   kind  "null" | "num" | "str" | "list" | "obj"                         *)
(*   str   the literal of a number, the content of a string                *)
(*   obj   a dict: function from keys (strings) to values                  *)
(*   items a list: sequence of values                                      *)
(***************************************************************************)
EmptyObj == [k \in {} |-> 0]

JNull     == [kind |-> "null", str |-> <<>>, obj |-> EmptyObj, items |-> <<>>]
JNum(d)   == [kind |-> "num",  str |-> <<d>>, obj |-> EmptyObj, items |-> <<>>]
JStr(s)   == [kind |-> "str",  str |-> s,    obj |-> EmptyObj, items |-> <<>>]
JList(xs) == [kind |-> "list", str |-> <<>>, obj |-> EmptyObj, items |-> xs]
JObj(f)   == [kind |-> "obj",  str |-> <<>>, obj |-> f,        items |-> <<>>]

\* dict[k] = v
Put(f, k, v) == [x \in (DOMAIN f) \cup {k} |-> IF x = k THEN v ELSE f[x]]

\* isinstance(v, dict)
IsDict(v) == v.kind = "obj"

\* k in v, for a dict v
HasKey(v, k) == k \in DOMAIN v.obj

\* bool(v): Python truthiness of a JSON value
Truthy(v) ==
    CASE v.kind = "null" -> FALSE
      [] v.kind = "num"  -> v.str # <<"0">>
      [] v.kind = "str"  -> v.str # <<>>
      [] v.kind = "list" -> v.items # <<>>
      [] v.kind = "obj"  -> DOMAIN v.obj # {}

(***************************************************************************)
(* json.loads: recursive descent over the atoms.                           *)
(***************************************************************************)
IsWs(a) == a \in {SP, NL}

RECURSIVE SkipWs(_)
SkipWs(t) == IF t # <<>> /\ IsWs(Head(t)) THEN SkipWs(Tail(t)) ELSE t

ParseFail == [ok |-> FALSE, val |-> JNull, rest |-> <<>>]
ParseOk(v, r) == [ok |-> TRUE, val |-> v, rest |-> r]

Unescape(a) == IF a = ESCQ THEN QUOTE ELSE IF a = ESCN THEN NL ELSE a
Escape(a)   == IF a = QUOTE THEN ESCQ ELSE IF a = NL THEN ESCN ELSE a

\* the body of a string literal, after the opening quote
RECURSIVE ScanString(_, _)
ScanString(t, acc) ==
    IF t = <<>> THEN ParseFail
    ELSE IF Head(t) = QUOTE THEN ParseOk(JStr(acc), Tail(t))
    ELSE IF Head(t) = NL THEN ParseFail
    ELSE ScanString(Tail(t), Append(acc, Unescape(Head(t))))

RECURSIVE ParseValue(_)
RECURSIVE ParseMembers(_, _)
RECURSIVE ParseItems(_, _)

ParseValue(t0) ==
    LET t == SkipWs(t0) IN
    IF t = <<>> THEN ParseFail
    ELSE CASE Head(t) = QUOTE -> ScanString(Tail(t), <<>>)
           [] Head(t) = "{" ->
                LET u == SkipWs(Tail(t)) IN
                IF u # <<>> /\ Head(u) = "}"
                THEN ParseOk(JObj(EmptyObj), Tail(u))
                ELSE ParseMembers(u, EmptyObj)
           [] Head(t) = "[" ->
                LET u == SkipWs(Tail(t)) IN
                IF u # <<>> /\ Head(u) = "]"
                THEN ParseOk(JList(<<>>), Tail(u))
                ELSE ParseItems(u, <<>>)
           [] Head(t) \in Digits -> ParseOk(JNum(Head(t)), Tail(t))
           [] Head(t) = "null" -> ParseOk(JNull, Tail(t))
           [] OTHER -> ParseFail

\* "key": value pairs up to the closing brace; a repeated key keeps the last
ParseMembers(t, acc) ==
    IF t = <<>> \/ Head(t) # QUOTE THEN ParseFail
    ELSE LET k == ScanString(Tail(t), <<>>) IN
         IF ~k.ok THEN ParseFail
         ELSE LET u == SkipWs(k.rest) IN
              IF u = <<>> \/ Head(u) # ":" THEN ParseFail
              ELSE LET v == ParseValue(Tail(u)) IN
                   IF ~v.ok THEN ParseFail
                   ELSE LET acc2 == Put(acc, k.val.str, v.val)
                            w == SkipWs(v.rest)
                        IN IF w = <<>> THEN ParseFail
                           ELSE IF Head(w) = "}" THEN ParseOk(JObj(acc2), Tail(w))
                           ELSE IF Head(w) = "," THEN ParseMembers(SkipWs(Tail(w)), acc2)
                           ELSE ParseFail

ParseItems(t, acc) ==
    LET v == ParseValue(t) IN
    IF ~v.ok THEN ParseFail
    ELSE LET acc2 == Append(acc, v.val)
             w == SkipWs(v.rest)
         IN IF w = <<>> THEN ParseFail
            ELSE IF Head(w) = "]" THEN ParseOk(JList(acc2), Tail(w))
            ELSE IF Head(w) = "," THEN ParseItems(Tail(w), acc2)
            ELSE ParseFail

\* json.loads(t): ok = FALSE stands for json.JSONDecodeError
json_loads(t) ==
    LET r == ParseValue(t) IN
    IF r.ok /\ SkipWs(r.rest) = <<>>
    THEN [ok |-> TRUE, val |-> r.val]
    ELSE [ok |-> FALSE, val |-> JNull]

(***************************************************************************)
(* json.dumps(v, indent=2, ensure_ascii=False).  The members of a dict are *)
(* written in one fixed order (Python writes them in insertion order; no   *)
(* reader of the text depends on the order).                               *)
(***************************************************************************)
RECURSIVE Spaces(_)
Spaces(n) == IF n = 0 THEN <<>> ELSE <<SP>> \o Spaces(n - 1)

RECURSIVE EscapeAll(_)
EscapeAll(s) == IF s = <<>> THEN <<>> ELSE <<Escape(Head(s))>> \o EscapeAll(Tail(s))

RECURSIVE KeySeq(_)
KeySeq(S) == IF S = {} THEN <<>>
             ELSE LET k == CHOOSE x \in S : TRUE IN <<k>> \o KeySeq(S \ {k})

RECURSIVE json_dumps(_, _)
RECURSIVE DumpMembers(_, _, _)
RECURSIVE DumpItems(_, _)

json_dumps(v, lvl) ==
    CASE v.kind = "null" -> <<"null">>
      [] v.kind = "num"  -> v.str
      [] v.kind = "str"  -> <<QUOTE>> \o EscapeAll(v.str) \o <<QUOTE>>
      [] v.kind = "list" ->
            IF v.items = <<>> THEN <<"[", "]">>
            ELSE <<"[">> \o DumpItems(v.items, lvl + 1)
                         \o <<NL>> \o Spaces(2 * lvl) \o <<"]">>
      [] v.kind = "obj" ->
            IF DOMAIN v.obj = {} THEN <<"{", "}">>
            ELSE <<"{">> \o DumpMembers(v.obj, KeySeq(DOMAIN v.obj), lvl + 1)
                         \o <<NL>> \o Spaces(2 * lvl) \o <<"}">>

DumpMembers(f, ks, lvl) ==
    IF ks = <<>> THEN <<>>
    ELSE <<NL>> \o Spaces(2 * lvl)
         \o <<QUOTE>> \o EscapeAll(Head(ks)) \o <<QUOTE, ":", SP>>
         \o json_dumps(f[Head(ks)], lvl)
         \o (IF Tail(ks) = <<>> THEN <<>> ELSE <<",">>)
         \o DumpMembers(f, Tail(ks), lvl)

DumpItems(xs, lvl) ==
    IF xs = <<>> THEN <<>>
    ELSE <<NL>> \o Spaces(2 * lvl)
         \o json_dumps(Head(xs), lvl)
         \o (IF Tail(xs) = <<>> THEN <<>> ELSE <<",">>)
         \o DumpItems(Tail(xs), lvl)


(***************************************************************************)
(* Python str operations used by the title derivation.                     *)
(***************************************************************************)
\* str.lower() on one atom
LowerAtom(a) ==
    CASE a = "Unknown"  -> "unknown"
      [] a = "UNKNOWN"  -> "unknown"
      [] a = "Beaker"   -> "beaker"
      [] a = "NaCl"     -> "nacl"
      [] a = "Name"     -> "name"
      [] a = "Here"     -> "here"
      [] a = "Untitled" -> "untitled"
      [] a = "Asset"    -> "asset"
      [] a = "Volume"   -> "volume"
      [] a = "Unnamed"  -> "unnamed"
      [] a = "Result"   -> "result"
      [] a = "A"        -> "a"
      [] OTHER          -> a

RECURSIVE lower(_)
lower(s) == IF s = <<>> THEN <<>> ELSE <<LowerAtom(Head(s))>> \o lower(Tail(s))

RECURSIVE lstrip(_)
lstrip(s) == IF s # <<>> /\ IsWs(Head(s)) THEN lstrip(Tail(s)) ELSE s

RECURSIVE rstrip(_)
rstrip(s) == IF s # <<>> /\ IsWs(s[Len(s)]) THEN rstrip(SubSeq(s, 1, Len(s) - 1)) ELSE s

strip(s) == rstrip(lstrip(s))

\* x in s for a str s and a one-word str x: substring test
InStr(x, s) == \E i \in 1..Len(s) : s[i] = x

\* x in xs for a list xs: some element equals the str x
InList(x, xs) == \E i \in 1..Len(xs) : xs[i] = JStr(<<x>>)

UNKNOWN       == <<"unknown">>
UntitledAsset == <<"Untitled", SP, "Asset">>

(***************************************************************************)
(* MainWindow.update_asset_title_from_result.  The result is the returned  *)
(* title, or raised = TRUE when the Python code raises (AttributeError on  *)
(* .lower() of a value that is not a str, TypeError on a result that is    *)
(* not a container).                                                       *)
(***************************************************************************)
name_fields == << <<"name">>, <<"asset_name">>, <<"chemical_name">>,
                  <<"equipment_name">>, <<"reagent_name">>,
                  <<"product_name">>, <<"title">> >>

Returned(t) == [raised |-> FALSE, title |-> t]
Raised      == [raised |-> TRUE,  title |-> <<>>]

\* the loop over name_fields, from index i on, for a dict
RECURSIVE ScanNameFields(_, _)
ScanNameFields(result, i) ==
    IF i > Len(name_fields) THEN Returned(UntitledAsset)
    ELSE LET field == name_fields[i] IN
         IF HasKey(result, field) /\ Truthy(result.obj[field])
         THEN LET v == result.obj[field] IN
              IF v.kind # "str" THEN Raised
              ELSE IF lower(v.str) # UNKNOWN
                   THEN LET name_value == strip(v.str) IN
                        IF name_value # <<>> /\ lower(name_value) # UNKNOWN
                        THEN Returned(name_value)
                        ELSE ScanNameFields(result, i + 1)
                   ELSE ScanNameFields(result, i + 1)
         ELSE ScanNameFields(result, i + 1)

\* lines 1096-1103, for a dict
SummaryTitle(result) ==
    IF HasKey(result, <<"summary">>) /\ IsDict(result.obj[<<"summary">>])
    THEN LET summary == result.obj[<<"summary">>] IN
         IF HasKey(summary, <<"asset_name">>) /\ Truthy(summary.obj[<<"asset_name">>])
         THEN LET v == summary.obj[<<"asset_name">>] IN
              IF v.kind # "str" THEN Raised
              ELSE IF lower(v.str) # UNKNOWN /\ strip(v.str) # <<>>
                   THEN Returned(strip(v.str))
                   ELSE Returned(<<>>)
         ELSE Returned(<<>>)
    ELSE Returned(<<>>)

update_asset_title_from_result(result) ==
    CASE result.kind = "obj" ->
            LET s == SummaryTitle(result) IN
            IF s.raised THEN Raised
            ELSE IF s.title # <<>> THEN s
            ELSE ScanNameFields(result, 1)
      [] result.kind = "list" ->
            \* "summary" in result, then result["summary"] on a list
            IF InList("summary", result.items) THEN Raised
            ELSE IF \E i \in 1..Len(name_fields) :
                       InList(name_fields[i][1], result.items)
                 THEN Raised
                 ELSE Returned(UntitledAsset)
      [] result.kind = "str" ->
            IF InStr("summary", result.str) THEN Raised
            ELSE IF \E i \in 1..Len(name_fields) :
                       InStr(name_fields[i][1], result.str)
                 THEN Raised
                 ELSE Returned(UntitledAsset)
      [] OTHER -> Raised     \* "summary" in 5, "summary" in None


(***************************************************************************)
(* The LLM backends: what analyze_image returns for the text the model     *)
(* sent back.  A failed request (exception, unsupported model, missing     *)
(* client) is the dict {"error": message}.                                 *)
(***************************************************************************)
ErrorResult == JObj(Put(EmptyObj, <<"error">>, JStr(<<"failed">>)))
RawText(content) == JObj(Put(EmptyObj, <<"raw_text">>, JStr(content)))

\* str.find / str.rfind of a one-atom pattern; 0 stands for Python's -1
find(content, a) ==
    IF \E i \in 1..Len(content) : content[i] = a
    THEN CHOOSE i \in 1..Len(content) :
            content[i] = a /\ \A j \in 1..(i - 1) : content[j] # a
    ELSE 0

rfind(content, a) ==
    IF \E i \in 1..Len(content) : content[i] = a
    THEN CHOOSE i \in 1..Len(content) :
            content[i] = a /\ \A j \in (i + 1)..Len(content) : content[j] # a
    ELSE 0

\* a variant of OpenAI_parse that reports a reply that is not JSON as an
\* error instead of wrapping it
OpenAI_parse_rejecting(content) ==
    LET parsed == json_loads(content) IN
    IF parsed.ok THEN parsed.val ELSE ErrorResult

\* OpenAILLM.analyze_image, lines 120-131
OpenAI_parse(content) ==
    LET parsed == json_loads(content) IN
    IF parsed.ok THEN parsed.val ELSE RawText(content)

\* AnthropicLLM.analyze_image lines 201-215, OllamaLLM.analyze_image 305-319
Anthropic_parse(content) ==
    LET json_start == find(content, "{")
        json_end   == rfind(content, "}")
    IN IF json_start > 0 /\ json_end > 0
       THEN LET parsed == json_loads(SubSeq(content, json_start, json_end)) IN
            IF parsed.ok THEN parsed.val ELSE RawText(content)
       ELSE RawText(content)

Backends == {"openai", "anthropic", "ollama", "local"}

\* LLMManager.analyze_asset with the backend self.llm; request_ok = FALSE
\* when the request raised or the backend refused
analyze_asset(backend, request_ok, content) ==
    IF ~request_ok \/ backend = "local" THEN ErrorResult
    ELSE IF backend = "openai" THEN OpenAI_parse(content)
    ELSE Anthropic_parse(content)

\* LLMProcessThread.run: which signal the worker emits for the result of
\* analyze_asset.  "error" in result raises for a number or None, and
\* result_ready is a pyqtSignal(dict), so every result that is not a dict
\* ends in error_occurred.
ThreadSignal(result) ==
    IF result.kind # "obj" THEN "error_occurred"
    ELSE IF HasKey(result, <<"error">>) THEN "error_occurred"
    ELSE "result_ready"

(***************************************************************************)
(* The texts the model can send back and the texts the operator can type.  *)
(***************************************************************************)
Lit(w) == <<QUOTE, w, QUOTE>>

ReplyBeaker  == <<"{">> \o Lit("name") \o <<":", SP>> \o Lit("Beaker") \o <<"}">>
ReplyProse   == <<"Name", ":", SP, "Beaker">>
ReplyError   == <<"{">> \o Lit("error") \o <<":", SP>> \o Lit("unknown") \o <<"}">>
ReplyList    == <<"[", "5", "]">>
ReplyWrapped == <<"Here", ":", SP>> \o ReplyBeaker
ReplyTruncated == <<"{">> \o Lit("name") \o <<":", SP>>

ReplyTexts == {ReplyBeaker, ReplyProse, ReplyError, ReplyList, ReplyWrapped,
               ReplyTruncated}

EditObject    == <<"{">> \o Lit("name") \o <<":">> \o Lit("NaCl") \o <<"}">>
EditList      == <<"[", "5", "]">>
EditTruncated == <<"{">> \o Lit("name") \o <<":">>

EditorTexts == {EditObject, EditList, EditTruncated}


(***************************************************************************)
(* State.  The attributes and widgets of MainWindow, the LLMProcessThread  *)
(* objects that have been started and whose signal has not yet been        *)
(* handled, the backend held by the LLMManager, and the inventory.         *)
(* 0 stands for None in current_image_path, current_asset_id, the template *)
(* id (currentData() of an empty combo box); JNull is                      *)
(* None in current_llm_result (json.loads("null") is None as well).        *)
(***************************************************************************)
VARIABLES
    current_image_path,      \* MainWindow.current_image_path
    current_llm_result,      \* MainWindow.current_llm_result
    current_asset_id,        \* MainWindow.current_asset_id
    analyze_button,          \* analyze_button.isEnabled()
    save_button,             \* save_button.isEnabled()
    capture_button,          \* capture_button.isEnabled()
    result_text,             \* result_text.toPlainText()
    result_readonly,         \* result_text.isReadOnly()
    textChanged_connected,   \* textChanged is connected to on_result_text_changed
    template_items,          \* item data of template_combo
    template_index,          \* template_combo.currentIndex() + 1
    camera_thread,           \* camera_thread is not None
    llm_threads,             \* bag of the workers in flight
    llm_backend,             \* class of LLMManager.llm
    elab_items,              \* records created in the inventory
    analysed,                \* history: an analysis of the held image has
                             \* completed and no image was acquired since
    edited,                  \* history: the operator edited the shown result
    committed,               \* history: a record was created for the held
                             \* image and no image was acquired since
    call,                    \* the call of a function checked on its own,
                             \* outside the window: [fn, arg, done, ret]
    config_file,             \* what the file at ConfigManager.config_path holds
    config_manager,          \* ConfigManager: config, default_config
    qrcode_generator,        \* QRCodeGenerator: base_url
    llm_manager,             \* LLMManager: provider, config, llm
    camera_manager,          \* CameraManager: camera, is_running
    preview,                 \* the CameraThread worker: running, position
    gui,                     \* the GUI thread while it works on the camera
    ops                      \* operations a component under check has done

vars == <<current_image_path, current_llm_result, current_asset_id,
          analyze_button, save_button, capture_button,
          result_text, result_readonly,
          textChanged_connected, template_items, template_index,
          camera_thread, llm_threads, llm_backend, elab_items,
          analysed, edited, committed, call,
          config_file, config_manager, qrcode_generator, llm_manager,
          camera_manager, preview, gui, ops>>

\* the components that are checked on their own, outside the window
comp_vars == <<config_file, config_manager, qrcode_generator, llm_manager,
               camera_manager, preview, gui, ops>>

\* no component is under check
NoComponents ==
    /\ config_file      = JNull
    /\ config_manager   = JNull
    /\ qrcode_generator = JNull
    /\ llm_manager      = JNull
    /\ camera_manager   = JNull
    /\ preview          = JNull
    /\ gui              = JNull
    /\ ops              = 0

\* the state as one record, so that a handler is a function on states and
\* a handler that calls another one is their composition.  status_label
\* (the message shown with set_status), qrcode_label (the record whose QR
\* code is shown) and the two QR buttons are written by the handlers and
\* read by none of them: they are results of a call and are not kept in the
\* state
Win == [current_image_path     |-> current_image_path,
        current_llm_result     |-> current_llm_result,
        current_asset_id       |-> current_asset_id,
        analyze_button         |-> analyze_button,
        save_button            |-> save_button,
        capture_button         |-> capture_button,
        result_text            |-> result_text,
        result_readonly        |-> result_readonly,
        textChanged_connected  |-> textChanged_connected,
        status_label           |-> "",
        generate_qrcode_button |-> FALSE,
        save_qrcode_button     |-> FALSE,
        qrcode_label           |-> 0,
        template_items         |-> template_items,
        template_index         |-> template_index,
        camera_thread          |-> camera_thread,
        llm_threads            |-> llm_threads,
        llm_backend            |-> llm_backend,
        elab_items             |-> elab_items,
        analysed               |-> analysed,
        edited                 |-> edited,
        committed              |-> committed]

SetWin(s) ==
    /\ current_image_path'     = s.current_image_path
    /\ current_llm_result'     = s.current_llm_result
    /\ current_asset_id'       = s.current_asset_id
    /\ analyze_button'         = s.analyze_button
    /\ save_button'            = s.save_button
    /\ capture_button'         = s.capture_button
    /\ result_text'            = s.result_text
    /\ result_readonly'        = s.result_readonly
    /\ textChanged_connected'  = s.textChanged_connected
    /\ template_items'         = s.template_items
    /\ template_index'         = s.template_index
    /\ camera_thread'          = s.camera_thread
    /\ llm_threads'            = s.llm_threads
    /\ llm_backend'            = s.llm_backend
    /\ elab_items'             = s.elab_items
    /\ analysed'               = s.analysed
    /\ edited'                 = s.edited
    /\ committed'              = s.committed

\* a step of the GUI thread to the state s, within the bound on workers
Step(s) ==
    /\ BagCardinality(s.llm_threads) <= MaxThreads
    /\ SetWin(s)
    /\ UNCHANGED <<call, comp_vars>>

(***************************************************************************)
(* Handlers of MainWindow, as functions from the state before the call to  *)
(* the state after it.                                                     *)
(***************************************************************************)
set_status(s, message) == [s EXCEPT !.status_label = message]

\* template_combo.currentData()
currentData(s) ==
    IF s.template_index = 0 THEN 0 ELSE s.template_items[s.template_index]

\* MainWindow.analyze_image (the progress bar is not modelled)
analyze_image(s) ==
    IF s.current_image_path = 0
    THEN set_status(s, "Please capture an image first")
    ELSE LET s1 == [s EXCEPT !.analyze_button = FALSE,
                             !.save_button = FALSE,
                             !.generate_qrcode_button = FALSE,
                             !.save_qrcode_button = FALSE,
                             !.status_label = "Preparing analysis..."]
             template_id == currentData(s1)
         IN IF template_id = 0
            THEN [s1 EXCEPT !.status_label = "Please select a template",
                            !.analyze_button = TRUE]
            ELSE [s1 EXCEPT !.llm_threads =
                     @ (+) SetToBag({[image_path |-> s1.current_image_path]})]

\* MainWindow.on_template_changed, the slot of currentIndexChanged
on_template_changed(s) ==
    IF s.current_image_path # 0 /\ Truthy(s.current_llm_result)
    THEN analyze_image(s)
    ELSE s

\* MainWindow.load_templates; templates is what get_item_templates returns.
\* clear() on a combo box with a current item and addItem on an empty combo
\* box both change the current index and emit currentIndexChanged.
load_templates(s, templates) ==
    LET cleared == [s EXCEPT !.template_items = <<>>, !.template_index = 0]
        s1 == IF s.template_index # 0 THEN on_template_changed(cleared)
              ELSE cleared
        s2 == IF templates # <<>>
              THEN on_template_changed([s1 EXCEPT !.template_items = templates,
                                                  !.template_index = 1])
              ELSE s1
    IN set_status(s2, IF templates # <<>> THEN "Loaded templates"
                      ELSE "No templates found")

\* MainWindow.start_camera; initialized is the result of initialize()
start_camera(s, initialized) ==
    IF ~initialized THEN set_status(s, "Camera initialization failed")
    ELSE [s EXCEPT !.camera_thread = TRUE,
                   !.capture_button = TRUE,
                   !.status_label = "Camera started"]

\* MainWindow.stop_camera
stop_camera(s) ==
    [s EXCEPT !.camera_thread = FALSE,
              !.capture_button = FALSE,
              !.status_label = "Camera stopped"]

\* MainWindow.toggle_camera
toggle_camera(s, initialized) ==
    IF ~s.camera_thread THEN start_camera(s, initialized) ELSE stop_camera(s)

\* MainWindow.load_image_from_file for a chosen file; readable = FALSE when
\* cv2.imread returns None or raises
load_image_from_file(s, file_path, readable) ==
    IF readable
    THEN [s EXCEPT !.current_image_path = file_path,
                   !.analyze_button = TRUE,
                   !.status_label = "Loaded image",
                   !.analysed = FALSE,
                   !.committed = FALSE]
    ELSE set_status(s, "Failed to load image")

\* a variant of capture_image that forgets the held image when the capture
\* fails
capture_image_forgetting(s, outcome, image_path) ==
    LET s1 == [s EXCEPT !.capture_button = FALSE,
                        !.status_label = "Capturing image..."]
        s2 == CASE outcome = "exception" ->
                     [s1 EXCEPT !.current_image_path = 0,
                                !.status_label = "Image capture exception"]
                [] outcome = "failed" ->
                     [s1 EXCEPT !.current_image_path = 0,
                                !.status_label = "Image capture failed"]
                [] outcome = "success" ->
                     analyze_image([s1 EXCEPT
                         !.current_image_path = image_path,
                         !.status_label = "Image saved",
                         !.analyze_button = TRUE,
                         !.analysed = FALSE,
                         !.committed = FALSE])
    IN [s2 EXCEPT !.capture_button = TRUE]

\* MainWindow.capture_image; outcome is "exception" (the directory cannot
\* be made), "failed" (CameraManager.capture_image returns False) or
\* "success"
capture_image(s, outcome, image_path) ==
    LET s1 == [s EXCEPT !.capture_button = FALSE,
                        !.status_label = "Capturing image..."]
        s2 == CASE outcome = "exception" ->
                     set_status(s1, "Image capture exception")
                [] outcome = "failed" ->
                     set_status(s1, "Image capture failed")
                [] outcome = "success" ->
                     analyze_image([s1 EXCEPT
                         !.current_image_path = image_path,
                         !.status_label = "Image saved",
                         !.analyze_button = TRUE,
                         !.analysed = FALSE,
                         !.committed = FALSE])
    IN [s2 EXCEPT !.capture_button = TRUE]

\* a variant of on_result_text_changed that drops the result when the
\* text does not parse
on_result_text_changed_dropping(s) ==
    LET edited_result == json_loads(s.result_text) IN
    IF edited_result.ok
    THEN [s EXCEPT !.current_llm_result = edited_result.val]
    ELSE [s EXCEPT !.current_llm_result = JNull]

\* MainWindow.on_result_text_changed
on_result_text_changed(s) ==
    LET edited_result == json_loads(s.result_text) IN
    IF edited_result.ok
    THEN [s EXCEPT !.current_llm_result = edited_result.val]
    ELSE s

\* result_text.setText / an edit by the operator: textChanged runs its slot
textChanged(s, text) ==
    LET s1 == [s EXCEPT !.result_text = text] IN
    IF s.textChanged_connected THEN on_result_text_changed(s1) ELSE s1

\* MainWindow.on_analysis_complete for the result of the worker w
on_analysis_complete(s, w, result) ==
    LET s1 == [s EXCEPT !.current_llm_result = result,
                        !.analysed = (w.image_path = s.current_image_path)]
    IN IF update_asset_title_from_result(result).raised
       THEN [s1 EXCEPT !.status_label = "Error processing analysis result",
                       !.analyze_button = TRUE]
       ELSE LET s2 == textChanged(s1, json_dumps(result, 0)) IN
            [s2 EXCEPT !.result_readonly = FALSE,
                       !.textChanged_connected = TRUE,
                       !.analyze_button = TRUE,
                       !.save_button = TRUE,
                       !.generate_qrcode_button = FALSE,
                       !.status_label = "Analysis complete",
                       !.edited = FALSE]

\* MainWindow.generate_qrcode; item_found is whether get_item returns the
\* record, rendered whether create_asset_qrcode succeeds
generate_qrcode(s, item_found, rendered) ==
    IF s.current_asset_id = 0
    THEN set_status(s, "Please save to elabFTW first")
    ELSE IF ~item_found
         THEN [s EXCEPT !.status_label = "Failed to get asset information",
                        !.generate_qrcode_button = TRUE]
         ELSE IF rendered
              THEN [s EXCEPT !.qrcode_label = s.current_asset_id,
                             !.status_label = "QR code generated",
                             !.save_qrcode_button = TRUE,
                             !.generate_qrcode_button = TRUE]
              ELSE [s EXCEPT !.status_label = "Failed to generate QR code",
                             !.generate_qrcode_button = TRUE]

\* ElabManager.create_asset_from_llm_data: created is whether create_item
\* returns an id
create_asset_from_llm_data(s, template_id, title, image_path, created) ==
    IF created
    THEN [s EXCEPT !.elab_items = Append(@, [id |-> Len(@) + 1])]
    ELSE s

\* MainWindow.save_to_elabftw
save_to_elabftw(s, created, item_found, rendered) ==
    IF ~Truthy(s.current_llm_result)
    THEN set_status(s, "Please analyze the image first")
    ELSE LET template_id == currentData(s)
             edited_result == json_loads(s.result_text)
         IN
         IF template_id = 0
         THEN [s EXCEPT !.status_label = "Please select a template",
                        !.save_button = TRUE]
         ELSE IF ~edited_result.ok
         THEN [s EXCEPT !.status_label = "The edited result contains invalid JSON. Please correct it before saving.",
                        !.save_button = TRUE]
         ELSE LET s1 == [s EXCEPT !.current_llm_result = edited_result.val]
                  title == update_asset_title_from_result(edited_result.val)
              IN
              \* the title derivation raises, or .copy() / ["title"] = raise
              \* on a value that is not a dict
              IF title.raised \/ ~IsDict(edited_result.val)
              THEN [s1 EXCEPT !.status_label = "Error saving to elabFTW",
                              !.save_button = TRUE]
              ELSE LET s2 == create_asset_from_llm_data(s1, template_id,
                                 title.title, s1.current_image_path,
                                 created)
                   IN IF created
                      THEN LET s3 == [s2 EXCEPT
                                        !.current_asset_id = Len(s2.elab_items),
                                        !.status_label = "Saved to elabFTW",
                                        !.committed = TRUE]
                               s4 == generate_qrcode(s3, item_found, rendered)
                           IN [s4 EXCEPT !.generate_qrcode_button = FALSE,
                                         !.save_button = TRUE]
                      ELSE [s2 EXCEPT !.status_label = "Failed to save to elabFTW",
                                      !.save_button = TRUE]

\* LLMManager.change_provider: initialize_llm replaces self.llm only for a
\* provider it supports
change_provider(s, provider) ==
    IF provider \in Backends THEN [s EXCEPT !.llm_backend = provider] ELSE s

\* MainWindow.open_settings with the dialog accepted, apply_config included
open_settings(s, provider, templates, initialized) ==
    LET s1 == change_provider(s, provider)
        s2 == load_templates(s1, templates)
        s3 == stop_camera(s2)
        s4 == start_camera(s3, initialized)
    IN set_status(s4, "Settings updated")


(***************************************************************************)
(* Inputs.                                                                 *)
(***************************************************************************)
\* the image files the operator can pick or the camera can write; the
\* program only stores a path and hands it on, so two files give every case
\* of "the same image" and "another image"
ImagePaths    == {1, 2}
\* what get_item_templates can return: nothing (server unreachable) or the
\* item types of the server
TemplateLists == {<<>>, <<1, 2>>}
\* the providers of the settings dialog
Providers     == {"openai", "anthropic", "azure"}

\* how the calls made by save_to_elabftw can end: create_item fails, or
\* it succeeds and get_item fails, or both succeed and the QR code is or
\* is not rendered
SaveOutcomes ==
    {[created |-> FALSE, item_found |-> FALSE, rendered |-> FALSE],
     [created |-> TRUE,  item_found |-> FALSE, rendered |-> FALSE],
     [created |-> TRUE,  item_found |-> TRUE,  rendered |-> FALSE],
     [created |-> TRUE,  item_found |-> TRUE,  rendered |-> TRUE]}

\* how the request of a worker can end: it fails, or the model answers
Replies ==
    {[request_ok |-> FALSE, content |-> <<>>]}
    \cup {[request_ok |-> TRUE, content |-> c] : c \in ReplyTexts}

\* the workers in flight without the worker w
Without(threads, w) == threads (-) SetToBag({w})

\* no function is being checked on its own
NoCall == [fn |-> "none", arg |-> JNull, done |-> TRUE, ret |-> JNull]

(***************************************************************************)
(* Init: the state after MainWindow.__init__ (init_ui, load_templates and  *)
(* start_camera).                                                          *)
(***************************************************************************)
Blank == [current_image_path     |-> 0,
          current_llm_result     |-> JNull,
          current_asset_id       |-> 0,
          analyze_button         |-> FALSE,
          save_button            |-> FALSE,
          capture_button         |-> FALSE,
          generate_qrcode_button |-> FALSE,
          save_qrcode_button     |-> FALSE,
          result_text            |-> <<>>,
          result_readonly        |-> TRUE,
          textChanged_connected  |-> FALSE,
          status_label           |-> "",
          template_items         |-> <<>>,
          template_index         |-> 0,
          camera_thread          |-> FALSE,
          llm_threads            |-> EmptyBag,
          llm_backend            |-> "openai",
          elab_items             |-> <<>>,
          qrcode_label           |-> 0,
          analysed               |-> FALSE,
          edited                 |-> FALSE,
          committed              |-> FALSE]

Init ==
    \E templates \in TemplateLists, initialized \in BOOLEAN :
        LET s == start_camera(load_templates(Blank, templates), initialized) IN
        /\ current_image_path     = s.current_image_path
        /\ current_llm_result     = s.current_llm_result
        /\ current_asset_id       = s.current_asset_id
        /\ analyze_button         = s.analyze_button
        /\ save_button            = s.save_button
        /\ capture_button         = s.capture_button
        /\ result_text            = s.result_text
        /\ result_readonly        = s.result_readonly
        /\ textChanged_connected  = s.textChanged_connected
        /\ template_items         = s.template_items
        /\ template_index         = s.template_index
        /\ camera_thread          = s.camera_thread
        /\ llm_threads            = s.llm_threads
        /\ llm_backend            = s.llm_backend
        /\ elab_items             = s.elab_items
        /\ analysed               = s.analysed
        /\ edited                 = s.edited
        /\ committed              = s.committed
        /\ call                   = NoCall
        /\ NoComponents

(***************************************************************************)
(* Actions of the GUI thread: one per button, widget signal or dialog.     *)
(***************************************************************************)
\* the Load Image button (always enabled)
LoadImage ==
    \E file_path \in ImagePaths, readable \in BOOLEAN :
        Step(load_image_from_file(Win, file_path, readable))

\* the Capture Image button
CaptureImage ==
    /\ capture_button
    /\ \E outcome \in {"exception", "failed", "success"}, image_path \in ImagePaths :
           Step(capture_image(Win, outcome, image_path))

\* the Analyze Image button
AnalyzeClick ==
    /\ analyze_button
    /\ Step(analyze_image(Win))

\* the operator types in the result editor
EditText ==
    /\ ~result_readonly
    /\ \E text \in EditorTexts \ {result_text} :
           Step(textChanged([Win EXCEPT !.edited = TRUE], text))

\* the operator picks another entry of the template combo box
SelectTemplate ==
    \E i \in (1..Len(template_items)) \ {template_index} :
        Step(on_template_changed([Win EXCEPT !.template_index = i]))

\* the Save to elabFTW button
SaveClick ==
    /\ save_button
    /\ Len(elab_items) < MaxCreate
    /\ \E o \in SaveOutcomes :
           Step(save_to_elabftw(Win, o.created, o.item_found, o.rendered))

\* the Start/Stop Camera button
ToggleCamera ==
    \E initialized \in BOOLEAN : Step(toggle_camera(Win, initialized))

\* the settings dialog, accepted
OpenSettings ==
    \E provider \in Providers, templates \in TemplateLists, initialized \in BOOLEAN :
        Step(open_settings(Win, provider, templates, initialized))

(***************************************************************************)
(* Steps of an LLMProcessThread.  run() has analyze_asset make the request *)
(* with the backend LLMManager.llm; when the request is over the thread    *)
(* emits one of result_ready and error_occurred, and the GUI thread runs   *)
(* the slot.  The thread writes no shared state, so the request, the       *)
(* signal and the slot are one step.                                       *)
(***************************************************************************)

\* result_ready -> on_analysis_complete
LLMResultReady(w) ==
    \E reply \in Replies :
          LET result == analyze_asset(llm_backend, reply.request_ok, reply.content) IN
          /\ ThreadSignal(result) = "result_ready"
          /\ Step(on_analysis_complete(
                    [Win EXCEPT !.llm_threads = Without(@, w)],
                    w, result))

\* error_occurred -> set_status
LLMErrorOccurred(w) ==
    \E reply \in Replies :
          LET result == analyze_asset(llm_backend, reply.request_ok, reply.content) IN
          /\ ThreadSignal(result) = "error_occurred"
          /\ Step(set_status([Win EXCEPT !.llm_threads = Without(@, w)],
                             "LLM analysis failed"))

Next ==
    \/ LoadImage
    \/ CaptureImage
    \/ AnalyzeClick
    \/ EditText
    \/ SelectTemplate
    \/ SaveClick
    \/ ToggleCamera
    \/ OpenSettings
    \/ \E w \in BagToSet(llm_threads) : LLMResultReady(w)
    \/ \E w \in BagToSet(llm_threads) : LLMErrorOccurred(w)

Spec == Init /\ [][Next]_vars

(***************************************************************************)
(* The workflow states of the specification, read off the program state.   *)
(***************************************************************************)
\* an analysis is in flight
Analyzing == llm_threads # EmptyBag

\* an analysis of the held image has completed, no image was acquired
\* since, and no analysis is in flight
ResultReady == analysed /\ ~Analyzing

\* a step that delivers the outcome of some worker as error_occurred
AnalysisFails == \E w \in BagToSet(llm_threads) : LLMErrorOccurred(w)

\* the replies of the model that are not JSON
NotJson(content) == ~json_loads(content).ok

\* the messages with which save_to_elabftw turns a commit down before it
\* calls the inventory
RejectionMessages ==
    {"Please analyze the image first",
     "Please select a template",
     "The edited result contains invalid JSON. Please correct it before saving."}

(***************************************************************************)
(* Claims about the workflow, checked under Spec.                          *)
(***************************************************************************)

\* C1: save_to_elabftw creates a record only if a template id is selected
\* and the workflow was in ResultReady immediately before: an analysis of
\* the held image has completed, no image was acquired since, and no
\* analysis is in flight.
C1_CommitOnlyFromResultReady ==
    [][elab_items' # elab_items => currentData(Win) # 0 /\ ResultReady]_vars

\* C2: every step that replaces the held image (a successful load or
\* capture) discards the previous draft: current_llm_result and
\* current_asset_id are cleared and the Save button is disabled.
C2_AcquisitionDiscardsDraft ==
    [][current_image_path' # current_image_path
          => /\ current_llm_result' = JNull
             /\ current_asset_id' = 0
             /\ ~save_button']_vars

\* C3: within one draft current_asset_id is set at most once: once a record
\* was created for the held image, and until another image is acquired, no
\* step creates a further record or changes current_asset_id.
C3_AssetIdSetOncePerDraft ==
    [][committed => /\ elab_items' = elab_items
                    /\ current_asset_id' = current_asset_id]_vars

\* C4: at every moment at most one LLMProcessThread is in flight.
C4_OneWorkerInFlight == BagCardinality(llm_threads) <= 1

\* C5: while an analysis is in flight a click on Save is rejected: no record
\* is created and current_llm_result and current_asset_id stay as they are.
C5_NoCommitWhileAnalyzing ==
    [][Analyzing /\ SaveClick
          => /\ elab_items' = elab_items
             /\ current_llm_result' = current_llm_result
             /\ current_asset_id' = current_asset_id]_vars

\* C6: when an analysis fails (error_occurred is delivered) the held image
\* is unchanged and the Analyze button is enabled again.
C6_FailureReenablesAnalyze ==
    [][AnalysisFails => /\ current_image_path' = current_image_path
                        /\ analyze_button']_vars

C8_TemplateChangeKeepsEdits ==
    [][edited /\ (template_index' # template_index
                  \/ template_items' # template_items)
          => BagCardinality(llm_threads') <= BagCardinality(llm_threads)]_vars

\* C9: in every reachable state current_llm_result is unset or a mapping.
C9_ResultIsMapping == current_llm_result = JNull \/ IsDict(current_llm_result)

\* C10: an edit that leaves a text in the editor that is not JSON changes
\* neither current_llm_result nor the workflow state (ResultReady, the Save
\* button); a step that creates a record or sets current_asset_id is taken
\* only while the editor text is JSON; and while it is not,
\* save_to_elabftw ends with one of its rejection messages whatever the
\* inventory would have answered.
C10_UnparseableEditRejected ==
    /\ [][result_text' # result_text /\ NotJson(result_text')
             => /\ current_llm_result' = current_llm_result
                /\ ResultReady' = ResultReady
                /\ save_button' = save_button]_vars
    /\ [][elab_items' # elab_items \/ current_asset_id' # current_asset_id
             => ~NotJson(result_text)]_vars
    /\ [](NotJson(result_text) =>
             \A o \in SaveOutcomes :
                LET after == save_to_elabftw(Win, o.created, o.item_found,
                                             o.rendered)
                IN /\ after.status_label \in RejectionMessages
                   /\ after.elab_items = elab_items
                   /\ after.current_llm_result = current_llm_result)

\* C10: a state in which the case has happened: the operator typed a text
\* that is not JSON over a result that is ready to be saved
C10_UnparseableEditShown ==
    /\ edited
    /\ NotJson(result_text)
    /\ Truthy(current_llm_result)
    /\ ResultReady
    /\ save_button
    /\ currentData(Win) # 0

(***************************************************************************)
(* The analysis and commit path over results of every shape.  A worker     *)
(* emits result_ready with whatever dict json.loads built from the reply   *)
(* of the model: the values of its fields can be strings, lists or nested  *)
(* dicts.  SpecResults draws the result of a worker from TypedResults and  *)
(* keeps the steps of the path: acquire, analyze, edit, save.              *)
(***************************************************************************)
ResultString == JObj(Put(EmptyObj, <<"name">>, JStr(<<"Beaker">>)))

\* a name that is a string, a list, a nested dict; a list in another
\* field; a summary with an asset_name
TypedResults ==
    {ResultString,
     JObj(Put(EmptyObj, <<"name">>, JList(<<JNum("5")>>))),
     JObj(Put(EmptyObj, <<"name">>, ResultString)),
     JObj(Put(ResultString.obj, <<"tags">>, JList(<<JStr(<<"glass">>)>>))),
     JObj(Put(EmptyObj, <<"summary">>,
              JObj(Put(EmptyObj, <<"asset_name">>, JStr(<<"Flask">>)))))}

\* result_ready -> on_analysis_complete, for a result of any shape
TypedResultReady(w) ==
    \E result \in TypedResults :
        /\ ThreadSignal(result) = "result_ready"
        /\ Step(on_analysis_complete(
                  [Win EXCEPT !.llm_threads = Without(@, w)], w, result))

NextResults ==
    \/ LoadImage
    \/ AnalyzeClick
    \/ EditText
    \/ SaveClick
    \/ \E w \in BagToSet(llm_threads) : TypedResultReady(w)

SpecResults == Init /\ [][NextResults]_vars

\* save_to_elabftw gets as far as the call of create_asset_from_llm_data:
\* a result is held, a template is selected, the editor text parses to a
\* dict and the title derivation does not raise
ReachesCreate(s) ==
    /\ Truthy(s.current_llm_result)
    /\ currentData(s) # 0
    /\ LET edited_result == json_loads(s.result_text) IN
       /\ edited_result.ok
       /\ IsDict(edited_result.val)
       /\ ~update_asset_title_from_result(edited_result.val).raised

(***************************************************************************)
(* Claims about failures of the commit and of the label, checked under     *)
(* SpecResults and Spec.                                                   *)
(***************************************************************************)

\* C11: whenever Save can be clicked and save_to_elabftw reaches the create
\* call, a create call that fails leaves current_llm_result, the editor
\* text, current_asset_id and the records as they were, shows no label and
\* ends with the Save button enabled.
C11_CommitFailureKeepsDraft ==
    save_button /\ ReachesCreate(Win) =>
        LET after == save_to_elabftw(Win, FALSE, FALSE, FALSE) IN
        /\ after.current_llm_result = current_llm_result
        /\ after.result_text = result_text
        /\ after.current_asset_id = current_asset_id
        /\ after.elab_items = elab_items
        /\ after.qrcode_label = 0
        /\ after.save_button

\* init_ui hides the Generate QR Code button (setVisible(False)) and no
\* handler shows it again
generate_qrcode_button_visible == FALSE

\* the actions that make a label for current_asset_id without creating a
\* record are the slots of the two buttons of the QR Code tab,
\* generate_qrcode and save_qrcode (create_label); a button can be clicked
\* when it is visible and enabled
RetryLabelEnabled(s) ==
    \/ s.generate_qrcode_button /\ generate_qrcode_button_visible
    \/ s.save_qrcode_button

\* how the label step of a commit can fail
LabelFailures == {o \in SaveOutcomes : o.created /\ ~(o.item_found /\ o.rendered)}

\* C12: after a first commit whose label step fails (no label was made
\* before, so the Save QR Code button is as analyze_image left it), the
\* created record and current_asset_id are kept and some action that
\* regenerates the label for that record is enabled.
C12_LabelRetryAvailable ==
    save_button /\ ReachesCreate(Win) /\ elab_items = <<>> =>
        \A o \in LabelFailures :
            LET after == save_to_elabftw(Win, o.created, o.item_found,
                                         o.rendered)
            IN /\ after.elab_items = <<[id |-> after.current_asset_id]>>
               /\ after.current_asset_id # 0
               /\ after.qrcode_label = 0
               /\ RetryLabelEnabled(after)

\* how an acquisition can fail: the camera capture raises or returns
\* failure
CaptureFailures == {"exception", "failed"}

\* the window s apart from the message in the status bar
Quiet(s) == [s EXCEPT !.status_label = ""]

\* C13: in every reachable state a file that cannot be read, and (where
\* Capture can be clicked) a capture that fails, change nothing but the
\* status bar: current_image_path, the result, the editor, the buttons and
\* the workers in flight are as before, a message is shown, and Capture is
\* enabled afterwards as it was before.
C13_AcquisitionFailureKeepsState ==
    /\ \A file_path \in ImagePaths :
           LET after == load_image_from_file(Win, file_path, FALSE) IN
           /\ Quiet(after) = Win
           /\ after.status_label # ""
    /\ capture_button =>
           \A outcome \in CaptureFailures, image_path \in ImagePaths :
               LET after == capture_image(Win, outcome, image_path) IN
               /\ Quiet(after) = Win
               /\ after.status_label # ""
               /\ after.capture_button

\* C13: a state in which the case happens with something to lose: an image
\* is held, its result is ready to be saved, Capture can be clicked, and a
\* capture that fails ends with its message
C13_FailureOverDraft ==
    /\ capture_button
    /\ current_image_path # 0
    /\ Truthy(current_llm_result)
    /\ save_button
    /\ ResultReady
    /\ capture_image(Win, "failed", 1).status_label = "Image capture failed"
    /\ load_image_from_file(Win, 1, FALSE).status_label = "Failed to load image"

(***************************************************************************)
(* Claims about results of every shape, checked under SpecResults.         *)
(***************************************************************************)

\* C14: for every worker in flight and every result that is a dict without
\* an error key, whatever the types of its values, on_analysis_complete
\* stores the dict in current_llm_result, shows it in the editor, derives a
\* title and enables Save.
C14_EveryMappingReachesResultReady ==
    \A w \in BagToSet(llm_threads) : \A result \in TypedResults :
        IsDict(result) /\ ThreadSignal(result) = "result_ready" =>
            LET after == on_analysis_complete(
                             [Win EXCEPT !.llm_threads = Without(@, w)],
                             w, result)
            IN /\ after.current_llm_result = result
               /\ ~update_asset_title_from_result(result).raised
               /\ after.result_text = json_dumps(result, 0)
               /\ ~after.result_readonly
               /\ after.save_button

(***************************************************************************)
(* Functions checked on their own.  The window does not take part: its     *)
(* variables stay as before construction, and call holds the function, its *)
(* argument and, once the call is done, what it returned.                  *)
(***************************************************************************)
win_vars == <<current_image_path, current_llm_result, current_asset_id,
              analyze_button, save_button, capture_button,
              result_text, result_readonly,
              textChanged_connected, template_items, template_index,
              camera_thread, llm_threads, llm_backend, elab_items,
              analysed, edited, committed>>

NoWindow ==
    /\ current_image_path     = Blank.current_image_path
    /\ current_llm_result     = Blank.current_llm_result
    /\ current_asset_id       = Blank.current_asset_id
    /\ analyze_button         = Blank.analyze_button
    /\ save_button            = Blank.save_button
    /\ capture_button         = Blank.capture_button
    /\ result_text            = Blank.result_text
    /\ result_readonly        = Blank.result_readonly
    /\ textChanged_connected  = Blank.textChanged_connected
    /\ template_items         = Blank.template_items
    /\ template_index         = Blank.template_index
    /\ camera_thread          = Blank.camera_thread
    /\ llm_threads            = Blank.llm_threads
    /\ llm_backend            = Blank.llm_backend
    /\ elab_items             = Blank.elab_items
    /\ analysed               = Blank.analysed
    /\ edited                 = Blank.edited
    /\ committed              = Blank.committed

\* a call of fn with the argument arg that has not run yet
Call(fn, arg) == [fn |-> fn, arg |-> arg, done |-> FALSE, ret |-> JNull]

\* the call returns ret
Return(ret) ==
    /\ call' = [call EXCEPT !.done = TRUE, !.ret = ret]
    /\ UNCHANGED <<win_vars, comp_vars>>

(***************************************************************************)
(* update_asset_title_from_result on its own.  The argument is a dict      *)
(* with any of the keys summary, name, chemical_name and title.  A name    *)
(* holds a string (empty, blank, "unknown" in some case, with or without   *)
(* surrounding blanks, or a proper name) or a list; summary holds a        *)
(* string, or a dict with or without asset_name.                           *)
(***************************************************************************)
\* marks a key that the dict does not have
Absent == [kind |-> "absent", str |-> <<>>, obj |-> EmptyObj, items |-> <<>>]

NameStrings == {<<>>, <<SP>>, UNKNOWN, <<"Unknown">>, <<SP, "unknown", SP>>,
                <<"Beaker">>, <<SP, "NaCl", SP>>}

NameValues == {JStr(s) : s \in NameStrings} \cup {JList(<<JNum("5")>>)}

SummaryValues ==
    {JStr(<<"Flask">>), JObj(EmptyObj)}
    \cup {JObj(Put(EmptyObj, <<"asset_name">>, v)) : v \in NameValues}

\* the dict with the keys of f that are not Absent
MakeDict(f) == JObj([k \in {x \in DOMAIN f : f[x] # Absent} |-> f[k]])

TitleInputs ==
    {MakeDict(<<"summary">> :> s @@ <<"name">> :> a
              @@ <<"chemical_name">> :> b @@ <<"title">> :> c) :
        s \in SummaryValues \cup {Absent},
        a \in NameValues \cup {Absent},
        b \in NameValues \cup {Absent},
        c \in NameValues \cup {Absent}}

InitTitle ==
    /\ NoWindow
    /\ NoComponents
    /\ \E result \in TitleInputs :
           call = Call("update_asset_title_from_result", result)

DeriveTitle ==
    /\ call.fn = "update_asset_title_from_result"
    /\ ~call.done
    /\ Return(update_asset_title_from_result(call.arg))

NextTitle == DeriveTitle

SpecTitle == InitTitle /\ [][NextTitle]_vars

(***************************************************************************)
(* Claims about the title derivation, checked under SpecTitle.             *)
(***************************************************************************)
\* the title derivation has run on the dict call.arg
TitleDerived == call.fn = "update_asset_title_from_result" /\ call.done

\* a candidate value that can be used as a title: after trimming it is
\* neither empty nor "unknown" in any case
Usable(v) ==
    /\ v.kind = "str"
    /\ strip(v.str) # <<>>
    /\ lower(strip(v.str)) # UNKNOWN

\* result["summary"]["asset_name"], Absent when there is none
SummaryName(result) ==
    IF /\ HasKey(result, <<"summary">>)
       /\ IsDict(result.obj[<<"summary">>])
       /\ HasKey(result.obj[<<"summary">>], <<"asset_name">>)
    THEN result.obj[<<"summary">>].obj[<<"asset_name">>]
    ELSE Absent

\* the positions in name_fields of the flat fields with a usable value
UsableFields(result) ==
    {i \in 1..Len(name_fields) :
        HasKey(result, name_fields[i]) /\ Usable(result.obj[name_fields[i]])}

\* the value of the first flat field that is usable
FirstUsable(result) ==
    LET i == CHOOSE j \in UsableFields(result) :
                 \A k \in UsableFields(result) : j <= k
    IN result.obj[name_fields[i]]

\* every candidate of the dict is a string
StringValued(result) ==
    /\ SummaryName(result) # Absent => SummaryName(result).kind = "str"
    /\ \A i \in 1..Len(name_fields) :
           HasKey(result, name_fields[i]) =>
               result.obj[name_fields[i]].kind = "str"

\* C15: for every dict with string values the title is summary.asset_name,
\* trimmed, when that value is usable, whatever the flat fields hold, and
\* otherwise the trimmed value of the first usable field among name,
\* asset_name, chemical_name, equipment_name, reagent_name, product_name,
\* title.
C15_TwoTierPriority ==
    TitleDerived /\ StringValued(call.arg) =>
        IF Usable(SummaryName(call.arg))
        THEN call.ret = Returned(strip(SummaryName(call.arg).str))
        ELSE UsableFields(call.arg) # {} =>
                 call.ret = Returned(strip(FirstUsable(call.arg).str))

\* "unknown" with blanks around it: unusable once trimmed, yet not equal to
\* "unknown" as it stands
PaddedUnknown(v) ==
    /\ v.kind = "str"
    /\ lower(strip(v.str)) = UNKNOWN
    /\ lower(v.str) # UNKNOWN

\* C16: update_asset_title_from_result never returns a title whose trimmed
\* lowercase form is "unknown".
C16_NeverReturnsUnknown ==
    TitleDerived /\ ~call.ret.raised =>
        lower(strip(call.ret.title)) # UNKNOWN

\* C17: for every dict update_asset_title_from_result returns a string that
\* is not empty and not blank, and it returns exactly "Untitled Asset" when
\* neither summary.asset_name nor any of the seven flat fields is usable.
C17_TitleNeverEmpty ==
    TitleDerived =>
        /\ ~call.ret.raised
        /\ strip(call.ret.title) # <<>>
        /\ (~Usable(SummaryName(call.arg)) /\ UsableFields(call.arg) = {}
               => call.ret = Returned(UntitledAsset))

(***************************************************************************)
(* parse_llm_response (src/llm/analyze_image.py) on its own.  The response *)
(* is a JSON value: a dict, or the text of the model as a string.          *)
(***************************************************************************)
\* str.split(sep) for a one-atom separator
RECURSIVE split(_, _)
split(t, sep) ==
    LET i == find(t, sep) IN
    IF i = 0 THEN <<t>>
    ELSE <<SubSeq(t, 1, i - 1)>> \o split(SubSeq(t, i + 1, Len(t)), sep)

\* str.replace(' ', '_').  A key is kept as the sequence of its words, so
\* the words that the underscores join are written as the one word that
\* the code compares them with.
RECURSIVE underscore(_)
underscore(s) ==
    IF s = <<>> THEN <<>>
    ELSE <<IF Head(s) = SP THEN "_" ELSE Head(s)>> \o underscore(Tail(s))

replace(s) ==
    LET u == underscore(s) IN
    CASE u = <<"asset", "_", "name">>    -> <<"asset_name">>
      [] u = <<"chemical", "_", "name">> -> <<"chemical_name">>
      [] OTHER -> u

UnnamedAsset == <<"Unnamed", SP, "Asset">>

\* the loop over the lines: key: value pairs, a later key replaces an
\* earlier one, a line without a colon is skipped
RECURSIVE ExtractPairs(_, _)
ExtractPairs(lines, result) ==
    IF lines = <<>> THEN result
    ELSE LET line == Head(lines) IN
         IF InStr(":", line)
         THEN LET i     == find(line, ":")
                  key   == replace(lower(strip(SubSeq(line, 1, i - 1))))
                  value == strip(SubSeq(line, i + 1, Len(line)))
              IN ExtractPairs(Tail(lines), Put(result, key, JStr(value)))
         ELSE ExtractPairs(Tail(lines), result)

\* llm_response.strip().startswith('{') and .endswith('}')
Braced(t) ==
    LET s == strip(t) IN s # <<>> /\ Head(s) = "{" /\ s[Len(s)] = "}"

ParseErrorResult == JObj(Put(EmptyObj, <<"error">>, JStr(<<"Failed", SP, "to", SP, "parse">>)))

parse_llm_response(llm_response, template_id) ==
    IF IsDict(llm_response) THEN llm_response
    ELSE IF llm_response.kind # "str" THEN ParseErrorResult   \* .strip() raises
    ELSE LET parsed == json_loads(llm_response.str) IN
         IF Braced(llm_response.str) /\ parsed.ok THEN parsed.val
         ELSE LET lines == split(strip(llm_response.str), NL)
                  r1 == ExtractPairs(lines, EmptyObj)
                  r2 == IF <<"name">> \notin DOMAIN r1
                           /\ <<"asset_name">> \notin DOMAIN r1
                        THEN Put(r1, <<"asset_name">>, JStr(UnnamedAsset))
                        ELSE r1
                  r3 == IF Truthy(template_id)
                        THEN Put(r2, <<"template_id">>, template_id)
                        ELSE r2
              IN JObj(r3)

\* the lines a model writes: key: value pairs, prose without a colon, and
\* a JSON object after a word of prose
ResponseLines ==
    {<<"Name", ":", SP, "Beaker">>,
     <<"Volume", ":", SP, "500ml">>,
     <<"A", SP, "glass", SP, "beaker">>,
     <<"Asset", SP, "Name", ":", SP, "unknown">>,
     <<"Here", ":", SP>> \o ReplyBeaker}

ReplyVolume == <<"{">> \o Lit("volume") \o <<":", SP>> \o Lit("500ml") \o <<"}">>

\* the responses: one or two lines of text, a JSON object alone (with or
\* without a name, padded, truncated), a JSON object between prose, a dict
\* (what analyze_asset hands over), and None
Responses ==
    {JStr(a) : a \in ResponseLines}
    \cup {JStr(a \o <<NL>> \o b) : a \in ResponseLines, b \in ResponseLines}
    \cup {JStr(ReplyBeaker), JStr(ReplyVolume), JStr(ReplyTruncated),
          JStr(<<SP>> \o ReplyVolume \o <<NL>>),
          JStr(<<"Result", SP>> \o ReplyVolume \o <<SP, "done">>),
          ResultString, ErrorResult, JNull}

\* template_id: None or the id of a template
TemplateIds == {JNull, JNum("1")}

InitParse ==
    /\ NoWindow
    /\ NoComponents
    /\ \E r \in Responses, template_id \in TemplateIds :
           call = Call("parse_llm_response",
                       [llm_response |-> r, template_id |-> template_id])

ParseResponse ==
    /\ call.fn = "parse_llm_response"
    /\ ~call.done
    /\ Return(parse_llm_response(call.arg.llm_response, call.arg.template_id))

NextParse == ParseResponse

SpecParse == InitParse /\ [][NextParse]_vars

(***************************************************************************)
(* Claims about the response parsing, checked under SpecParse.             *)
(***************************************************************************)
\* parse_llm_response has run on the text of a model
TextParsed ==
    /\ call.fn = "parse_llm_response"
    /\ call.done
    /\ call.arg.llm_response.kind = "str"

\* the fields that the text states: the members of the JSON object when
\* the text is one, the key: value pairs of its lines otherwise
StatedFields(t) ==
    IF Braced(t) /\ json_loads(t).ok
    THEN json_loads(t).val.obj
    ELSE ExtractPairs(split(strip(t), NL), EmptyObj)

\* the text states no name-like field: none of name_fields and no summary
NoNameField(t) ==
    /\ <<"summary">> \notin DOMAIN StatedFields(t)
    /\ \A i \in 1..Len(name_fields) :
           name_fields[i] \notin DOMAIN StatedFields(t)

\* C18: for every text that states no name-like field, the parsed dict has
\* the placeholder "Unnamed Asset" under asset_name, and
\* update_asset_title_from_result of the parsed dict is exactly
\* "Untitled Asset".
C18_PlaceholderFallsThrough ==
    TextParsed /\ NoNameField(call.arg.llm_response.str) =>
        /\ HasKey(call.ret, <<"asset_name">>)
        /\ call.ret.obj[<<"asset_name">>] = JStr(UnnamedAsset)
        /\ update_asset_title_from_result(call.ret) = Returned(UntitledAsset)

\* the text is not a JSON object as a whole, but the part from its first
\* { to its last } is one
WrappedObject(t) ==
    /\ ~Braced(t)
    /\ find(t, "{") > 0
    /\ rfind(t, "}") > find(t, "{")
    /\ json_loads(SubSeq(t, find(t, "{"), rfind(t, "}"))).ok

\* the dict d without the key k
Drop(d, k) == JObj([x \in (DOMAIN d.obj) \ {k} |-> d.obj[x]])

\* C19: for every text that holds a JSON object between prose,
\* parse_llm_response returns the dict that json.loads makes of the part
\* from the first { to the last } (template_id aside).
C19_WrappedObjectParsed ==
    TextParsed /\ WrappedObject(call.arg.llm_response.str) =>
        LET t == call.arg.llm_response.str IN
        Drop(call.ret, <<"template_id">>)
            = json_loads(SubSeq(t, find(t, "{"), rfind(t, "}"))).val

(***************************************************************************)
(* QRCodeGenerator.create_asset_qrcode and create_label on their own: the  *)
(* name of the file they write.  A title and a file name are sequences of  *)
(* characters; the extension ".png" is one atom.  Drawing succeeds; the    *)
(* directory output_dir in front of the name is left out.                  *)
(***************************************************************************)
MaxTitleLen == 2

\* the characters of a title: letters, a digit, and punctuation
TitleChars == {"a", "Z", "7", SP, "_", "-", "/", "?"}

\* c.isalnum()
isalnum(c) ==
    c \in {"a", "e", "s", "t", "q", "r", "Z",
           "0", "1", "2", "3", "4", "5", "6", "7", "8", "9"}

\* "".join(c for c in asset_name if c.isalnum() or c in "_ -")
RECURSIVE Sanitize(_)
Sanitize(s) ==
    IF s = <<>> THEN <<>>
    ELSE IF isalnum(Head(s)) \/ Head(s) \in {"_", SP, "-"}
         THEN <<Head(s)>> \o Sanitize(Tail(s))
         ELSE Sanitize(Tail(s))

\* str(n) for a natural number n
DigitChar(d) == <<"0", "1", "2", "3", "4", "5", "6", "7", "8", "9">>[d + 1]

RECURSIVE str_int(_)
str_int(n) ==
    IF n < 10 THEN <<DigitChar(n)>>
    ELSE str_int(n \div 10) \o <<DigitChar(n % 10)>>

\* f"asset_{asset_id}"
asset_prefix(asset_id) == <<"a", "s", "s", "e", "t", "_">> \o str_int(asset_id)

QrFailed == [success |-> FALSE, file_path |-> <<>>]

\* the file name both functions end with: filename as given, or made from
\* asset_info["title"] and the id, with ".png" added when it is missing;
\* tail is what follows the id ("" or "_label")
OutputFile(asset_id, asset_info, filename, tail) ==
    LET asset_title == IF HasKey(asset_info, <<"title">>)
                       THEN asset_info.obj[<<"title">>]
                       ELSE JStr(asset_prefix(asset_id))
    IN IF asset_title.kind # "str"
       THEN QrFailed                   \* drawing or iterating the title raises
       ELSE LET name == IF filename = JNull
                        THEN Sanitize(asset_title.str) \o <<"_">>
                                 \o str_int(asset_id) \o tail \o <<".png">>
                        ELSE filename.str
                file == IF name # <<>> /\ name[Len(name)] = ".png"
                        THEN name ELSE name \o <<".png">>
            IN [success |-> TRUE, file_path |-> file]

create_asset_qrcode(asset_id, asset_info, filename) ==
    OutputFile(asset_id, asset_info, filename, <<>>)

create_label(asset_id, asset_info, filename) ==
    OutputFile(asset_id, asset_info, filename, <<"_", "l", "a", "b", "e", "l">>)

\* the titles of at most MaxTitleLen characters
RECURSIVE TitlesOfLen(_)
TitlesOfLen(n) ==
    IF n = 0 THEN {<<>>}
    ELSE {Append(s, c) : s \in TitlesOfLen(n - 1), c \in TitleChars}

Titles == UNION {TitlesOfLen(n) : n \in 0..MaxTitleLen}

\* what get_item returns: a record with a title, with the title null, or
\* without one
AssetInfos ==
    {JObj(Put(EmptyObj, <<"title">>, JStr(s))) : s \in Titles}
    \cup {JObj(Put(EmptyObj, <<"title">>, JNull)), JObj(EmptyObj)}

AssetIds == {7, 42}

\* filename: None, or the name the operator chose in the file dialog
Filenames == {JNull, JStr(<<"q", "r">>), JStr(<<"q", "r", ".png">>)}

InitQr ==
    /\ NoWindow
    /\ NoComponents
    /\ \E fn \in {"create_asset_qrcode", "create_label"},
          asset_id \in AssetIds, asset_info \in AssetInfos,
          filename \in Filenames :
           call = Call(fn, [asset_id |-> asset_id, asset_info |-> asset_info,
                            filename |-> filename])

CreateAssetQrcode ==
    /\ call.fn = "create_asset_qrcode"
    /\ ~call.done
    /\ Return(create_asset_qrcode(call.arg.asset_id, call.arg.asset_info,
                                  call.arg.filename))

CreateLabel ==
    /\ call.fn = "create_label"
    /\ ~call.done
    /\ Return(create_label(call.arg.asset_id, call.arg.asset_info,
                           call.arg.filename))

NextQr == CreateAssetQrcode \/ CreateLabel

SpecQr == InitQr /\ [][NextQr]_vars

(***************************************************************************)
(* Claims about the label file, checked under SpecQr.                      *)
(***************************************************************************)
\* create_asset_qrcode has made a file under a name of its own
QrNamed ==
    /\ call.fn = "create_asset_qrcode"
    /\ call.done
    /\ call.arg.filename = JNull
    /\ call.ret.success

\* the characters of a file name: alphanumerics, space, underscore, hyphen
FilenameChar(c) == isalnum(c) \/ c \in {SP, "_", "-"}

\* C20: the name of the file is the title restricted to alphanumerics,
\* space, underscore and hyphen, followed by the record id; when there is
\* no title, or nothing of it is left, the name part is asset_<id>.
C20_LabelFilename ==
    QrNamed =>
        LET info  == call.arg.asset_info
            id    == str_int(call.arg.asset_id)
            kept  == IF HasKey(info, <<"title">>)
                     THEN SelectSeq(info.obj[<<"title">>].str, FilenameChar)
                     ELSE <<>>
            name  == IF kept # <<>> THEN kept ELSE asset_prefix(call.arg.asset_id)
        IN call.ret.file_path = name \o <<"_">> \o id \o <<".png">>

(***************************************************************************)
(* ConfigManager (config/settings.py) on its own.  config_manager holds    *)
(* the two dicts of the object, config and default_config, and whether     *)
(* they are one and the same object (load_config assigns default_config to *)
(* config without a copy, so a write through config is then a write to     *)
(* default_config as well).  config_file is the text of the file at        *)
(* config_path, or NoFile.  Of the sections of default_config the model    *)
(* keeps llm (provider, model) and elabftw (api_url).  json.dump writes    *)
(* with indent=4; the text here is indented as json_dumps above indents,   *)
(* which differs in white space only.                                      *)
(***************************************************************************)
NoFile == <<"no file">>

ApiUrl(host) == JStr(<<host, "/api/", "v2">>)

DefaultConfig ==
    JObj(Put(Put(EmptyObj,
        <<"llm">>, JObj(Put(Put(EmptyObj,
                       <<"provider">>, JStr(<<"openai">>)),
                       <<"model">>, JStr(<<"gpt-4-vision-preview">>)))),
        <<"elabftw">>, JObj(Put(EmptyObj,
                       <<"api_url">>, ApiUrl("https://10.159.64.205:3148")))))

\* ConfigManager(): config is empty, the defaults are the documented ones
ConfigManager == [config |-> JObj(EmptyObj), default_config |-> DefaultConfig,
                  shared |-> FALSE]

\* a write to the dict self.config refers to: it is seen through
\* default_config too when both name the same dict
Mutate(m, v) ==
    [m EXCEPT !.config = v, !.default_config = IF m.shared THEN v ELSE @]

\* how writing the file can end: written in full; open() raises and the
\* file is as it was; json.dump or the disk raises after open(path, 'w')
\* has truncated the file, with nothing or part of the text written
WriteOutcomes == {"written", "open raises", "dump raises at once",
                  "dump raises midway"}

\* save_config: the object and the file afterwards and the value returned
save_config(m, file, w) ==
    LET text == json_dumps(m.config, 0) IN
    CASE w = "written" -> [m |-> m, file |-> text, ret |-> TRUE]
      [] w = "open raises" -> [m |-> m, file |-> file, ret |-> FALSE]
      [] w = "dump raises at once" -> [m |-> m, file |-> <<>>, ret |-> FALSE]
      [] w = "dump raises midway" ->
            [m |-> m, file |-> SubSeq(text, 1, Len(text) \div 2),
             ret |-> FALSE]

\* load_config: readable says whether open() for reading succeeds
load_config(m, file, readable, w) ==
    LET defaults == [m EXCEPT !.config = m.default_config, !.shared = TRUE] IN
    IF file # NoFile
    THEN LET loaded == json_loads(file) IN
         IF readable /\ loaded.ok
         THEN [m |-> [m EXCEPT !.config = loaded.val, !.shared = FALSE],
               file |-> file, ret |-> loaded.val]
         ELSE [m |-> defaults, file |-> file, ret |-> defaults.config]
    ELSE [save_config(defaults, file, w) EXCEPT !.ret = defaults.config]

\* _update_dict(d, u), as the dict d is afterwards
RECURSIVE update_dict(_, _)
update_dict(d, u) ==
    JObj([k \in DOMAIN d.obj \cup DOMAIN u.obj |->
            IF k \notin DOMAIN u.obj THEN d.obj[k]
            ELSE IF IsDict(u.obj[k]) /\ k \in DOMAIN d.obj /\ IsDict(d.obj[k])
                 THEN update_dict(d.obj[k], u.obj[k])
                 ELSE u.obj[k]])

update_config(m, file, new_config, w) ==
    IF ~IsDict(new_config)
    THEN [m |-> m, file |-> file, ret |-> FALSE]     \* u.items() raises
    ELSE save_config(Mutate(m, update_dict(m.config, new_config)), file, w)

\* the loop of get_value: value = value[key] for each key; indexing
\* anything but a dict with a str raises TypeError, a missing key KeyError
RECURSIVE Lookup(_, _)
Lookup(value, keys) ==
    IF keys = <<>> THEN [found |-> TRUE, value |-> value]
    ELSE IF IsDict(value) /\ HasKey(value, Head(keys))
         THEN Lookup(value.obj[Head(keys)], Tail(keys))
         ELSE [found |-> FALSE, value |-> JNull]

get_value(m, key_path, default) ==
    LET r == Lookup(m.config, split(key_path, ".")) IN
    IF r.found THEN r.value ELSE default

\* the loop and the assignment of set_value on the dict d
RECURSIVE SetPath(_, _, _)
SetPath(d, keys, value) ==
    IF Len(keys) = 1 THEN JObj(Put(d.obj, keys[1], value))
    ELSE LET key == Head(keys)
             sub == IF HasKey(d, key) /\ IsDict(d.obj[key])
                    THEN d.obj[key] ELSE JObj(EmptyObj)
         IN JObj(Put(d.obj, key, SetPath(sub, Tail(keys), value)))

set_value(m, file, key_path, value, w) ==
    save_config(Mutate(m, SetPath(m.config, split(key_path, "."), value)),
                file, w)

(***************************************************************************)
(* The URL a QR code encodes.  The window loads the configuration at       *)
(* start and QRCodeGenerator() loads it once more, with a ConfigManager of *)
(* its own, to compute base_url; open_settings writes the new              *)
(* configuration with update_config and calls apply_config, which builds   *)
(* a new ElabManager and a new CameraManager and leaves the generator as   *)
(* it is.                                                                  *)
(***************************************************************************)
ElabLocal == "https://elab.local"

\* QRCodeGenerator.__init__: base_url from elabftw.api_url of the loaded
\* configuration (a dict whose elabftw section, if any, is a dict)
QRCodeGenerator(file) ==
    LET config  == load_config(ConfigManager, file, TRUE, "written").ret
        elabftw == IF HasKey(config, <<"elabftw">>)
                   THEN config.obj[<<"elabftw">>] ELSE JObj(EmptyObj)
        api_url == IF HasKey(elabftw, <<"api_url">>)
                   THEN elabftw.obj[<<"api_url">>].str ELSE <<>>
    IN [base_url |-> IF InStr("/api/", api_url)
                     THEN split(api_url, "/api/")[1]
                     ELSE <<ElabLocal>>]

ViewPath == "/database.php?mode=view&id="

\* qr_data of create_asset_qrcode
qrcode_data(g, asset_id) == g.base_url \o <<ViewPath>> \o str_int(asset_id)

\* qr_data of create_label
label_data(g, asset_id) == <<ElabLocal, ViewPath>> \o str_int(asset_id)

\* the inventory servers the operator can enter in the settings dialog
Hosts == {"https://10.159.64.205:3148", "https://elab.example.org"}

\* SettingsDialog.get_config, for the inventory URL: the configuration
\* with elabftw.api_url replaced
get_config(config, host) ==
    SetPath(config, <<<<"elabftw">>, <<"api_url">>>>, ApiUrl(host))

InitUrl ==
    /\ NoWindow
    /\ call = NoCall
    /\ llm_manager = JNull /\ camera_manager = JNull
    /\ preview = JNull /\ gui = JNull /\ ops = 0
    /\ \E file \in {NoFile} \cup
                   {json_dumps(get_config(DefaultConfig, h), 0) : h \in Hosts} :
          LET c == load_config(ConfigManager, file, TRUE, "written") IN
          /\ config_manager   = c.m
          /\ config_file      = c.file
          /\ qrcode_generator = QRCodeGenerator(c.file)

\* open_settings, accepted with the inventory server host: SettingsDialog
\* loads the configuration, update_config writes the edited one, and
\* apply_config follows
ChangeInventoryUrl ==
    \E host \in Hosts, w \in WriteOutcomes :
        LET d == load_config(config_manager, config_file, TRUE, "written")
            c == update_config(d.m, d.file, get_config(d.ret, host), w)
        IN
        /\ config_manager' = c.m
        /\ config_file'    = c.file
        /\ call' = [fn |-> "open_settings", arg |-> host, done |-> TRUE,
                    ret |-> JNull]
        /\ UNCHANGED <<win_vars, qrcode_generator, llm_manager,
                       camera_manager, preview, gui, ops>>

RenderQrcode ==
    \E asset_id \in AssetIds :
        /\ call' = [fn |-> "create_asset_qrcode", arg |-> asset_id,
                    done |-> TRUE,
                    ret |-> qrcode_data(qrcode_generator, asset_id)]
        /\ UNCHANGED <<win_vars, comp_vars>>

RenderLabel ==
    \E asset_id \in AssetIds :
        /\ call' = [fn |-> "create_label", arg |-> asset_id, done |-> TRUE,
                    ret |-> label_data(qrcode_generator, asset_id)]
        /\ UNCHANGED <<win_vars, comp_vars>>

NextUrl == ChangeInventoryUrl \/ RenderQrcode \/ RenderLabel

SpecUrl == InitUrl /\ [][NextUrl]_vars

(***************************************************************************)
(* Claim about the encoded URL, checked under SpecUrl.                     *)
(***************************************************************************)
\* the URL of record r at the inventory of the configuration config
InventoryUrl(config, r) ==
    split(config.obj[<<"elabftw">>].obj[<<"api_url">>].str, "/api/")[1]
        \o <<ViewPath>> \o str_int(r)

\* C21: what create_asset_qrcode or create_label encodes for the record r
\* is the URL of r at the inventory of the current configuration, also
\* after the operator changed the inventory URL in the settings.
C21_EncodesCurrentInventoryUrl ==
    [][call'.fn \in {"create_asset_qrcode", "create_label"} =>
           call'.ret = InventoryUrl(config_manager'.config, call'.arg)]_vars

(***************************************************************************)
(* ConfigManager under any sequence of at most MaxOps of its operations.   *)
(* The file is absent, holds text that is no JSON, or holds a              *)
(* configuration saved earlier.  call records the last operation, its      *)
(* arguments and what it returned.                                         *)
(***************************************************************************)
MaxOps == 3

\* key paths given to get_value and set_value
KeyPaths == {<<"llm", ".", "model">>, <<"llm", ".", "model", ".", "name">>,
             <<"ui", ".", "theme">>}

\* arguments of update_config: a section with one entry changed, or
\* something that is no dict
NewConfigs ==
    {JObj(Put(EmptyObj, <<"llm">>,
              JObj(Put(EmptyObj, <<"provider">>, JStr(<<"anthropic">>))))),
     JStr(<<"dark">>)}

ConfigFiles ==
    {NoFile, <<"{">>,
     json_dumps(get_config(DefaultConfig, "https://elab.example.org"), 0)}

InitConfig ==
    /\ NoWindow
    /\ call = NoCall
    /\ qrcode_generator = JNull /\ llm_manager = JNull
    /\ camera_manager = JNull /\ preview = JNull /\ gui = JNull
    /\ ops = 0
    /\ config_manager = ConfigManager
    /\ config_file \in ConfigFiles

\* the object and the file are as the record c tells, one more operation
\* is done
Store(c) ==
    /\ config_manager' = c.m
    /\ config_file'    = c.file
    /\ ops' = ops + 1
    /\ UNCHANGED <<win_vars, qrcode_generator, llm_manager, camera_manager,
                   preview, gui>>

LoadConfig ==
    /\ ops < MaxOps
    /\ \E readable \in BOOLEAN, w \in WriteOutcomes :
          LET c == load_config(config_manager, config_file, readable, w) IN
          /\ call' = [fn |-> "load_config", done |-> TRUE, ret |-> c.ret,
                      arg |-> [readable |-> readable, w |-> w]]
          /\ Store(c)

UpdateConfig ==
    /\ ops < MaxOps
    /\ \E new_config \in NewConfigs, w \in WriteOutcomes :
          LET c == update_config(config_manager, config_file, new_config, w)
          IN /\ call' = [fn |-> "update_config", done |-> TRUE,
                         ret |-> c.ret, arg |-> new_config]
             /\ Store(c)

SetValue ==
    /\ ops < MaxOps
    /\ \E key_path \in KeyPaths, w \in WriteOutcomes :
          LET value == JStr(<<"dark">>)
              c == set_value(config_manager, config_file, key_path, value, w)
          IN /\ call' = [fn |-> "set_value", done |-> TRUE, ret |-> c.ret,
                         arg |-> [key_path |-> key_path, value |-> value]]
             /\ Store(c)

GetValue ==
    /\ ops < MaxOps
    /\ \E key_path \in KeyPaths :
          LET default == JStr(<<"light">>) IN
          /\ call' = [fn |-> "get_value", done |-> TRUE,
                      ret |-> get_value(config_manager, key_path, default),
                      arg |-> [key_path |-> key_path, default |-> default]]
          /\ Store([m |-> config_manager, file |-> config_file])

NextConfig == LoadConfig \/ UpdateConfig \/ SetValue \/ GetValue

SpecConfig == InitConfig /\ [][NextConfig]_vars

(***************************************************************************)
(* Claims about ConfigManager, checked under SpecConfig.                   *)
(***************************************************************************)
\* C23: an update replaces the document atomically.  When update_config or
\* set_value returns True, the file holds the configuration that is in
\* memory, and that configuration holds the update (every entry of
\* new_config, the value at the key path); when it returns False, the file
\* and the configuration in memory are as they were before the call.
C23_UpdateIsAtomic ==
    [][call'.fn \in {"update_config", "set_value"} =>
           LET after == config_manager'.config IN
           IF call'.ret
           THEN /\ json_loads(config_file') = [ok |-> TRUE, val |-> after]
                /\ call'.fn = "update_config" =>
                       after = update_dict(after, call'.arg)
                /\ call'.fn = "set_value" =>
                       get_value(config_manager', call'.arg.key_path, JNull)
                           = call'.arg.value
           ELSE /\ config_file' = config_file
                /\ after = config_manager.config]_vars

\* C24: load_config returns a configuration in every case.  With the file
\* absent (and the disk accepting the write) the file holds the documented
\* defaults afterwards and they are returned; with a file that cannot be
\* read or parsed the documented defaults are returned.
C24_LoadFallsBackToDefaults ==
    [][call'.fn = "load_config" =>
           /\ config_file = NoFile /\ call'.arg.w = "written" =>
                  /\ json_loads(config_file')
                         = [ok |-> TRUE, val |-> DefaultConfig]
                  /\ call'.ret = DefaultConfig
           /\ /\ config_file # NoFile
              /\ ~call'.arg.readable \/ ~json_loads(config_file).ok
              => call'.ret = DefaultConfig]_vars

\* the key lists the claims look at: those of KeyPaths, their prefixes and
\* two entries of other sections
ProbePaths ==
    UNION {{SubSeq(split(p, "."), 1, n) : n \in 1..Len(split(p, "."))} :
               p \in KeyPaths}
    \cup {<<<<"llm">>, <<"provider">>>>, <<<<"elabftw">>, <<"api_url">>>>}

\* the key list a is the beginning of the key list b
IsPrefix(a, b) == Len(a) <= Len(b) /\ SubSeq(b, 1, Len(a)) = a

\* the path keys leads to a value of the document v
RECURSIVE PathExists(_, _)
PathExists(v, keys) ==
    \/ keys = <<>>
    \/ /\ v.kind = "obj"
       /\ Head(keys) \in DOMAIN v.obj
       /\ PathExists(v.obj[Head(keys)], Tail(keys))

\* C26: after set_value(p, v), get_value(p, d) returns v; every path that
\* is neither p, a prefix nor an extension of p reads as before; a value
\* that is no mapping and lies on a prefix of p is still there; and
\* get_value returns the default for a path that does not exist.
C26_DottedPathAccess ==
    [][/\ call'.fn = "set_value" =>
              LET p      == split(call'.arg.key_path, ".")
                  before == config_manager.config
                  after  == config_manager'.config
              IN /\ get_value(config_manager', call'.arg.key_path, JNull)
                        = call'.arg.value
                 /\ \A q \in ProbePaths :
                        ~IsPrefix(q, p) /\ ~IsPrefix(p, q) =>
                            Lookup(after, q) = Lookup(before, q)
                 /\ \A q \in ProbePaths :
                        /\ IsPrefix(q, p) /\ q # p
                        /\ PathExists(before, q)
                        /\ ~IsDict(Lookup(before, q).value)
                        => Lookup(after, q) = Lookup(before, q)
       /\ call'.fn = "get_value" =>
              (~PathExists(config_manager.config,
                           split(call'.arg.key_path, "."))
                   => call'.ret = call'.arg.default)]_vars

\* C30: default_config is the documented defaults in every state, whatever
\* set_value and update_config wrote.
C30_DefaultsNeverModified ==
    config_manager.default_config = DefaultConfig

(***************************************************************************)
(* ElabManager.create_asset_from_llm_data on its own, with the image       *)
(* upload.  The inventory answers as it likes: create_item gives an id or  *)
(* nothing, and the upload is stored or not.                               *)
(***************************************************************************)
\* how upload_image can end: no API client can be made; the inventory
\* answers 201 and lists the upload; it answers 201 and lists nothing; it
\* answers another status; the request raises
UploadOutcomes == {"no client", "created", "created, none listed",
                   "refused", "raises"}

\* upload_image: the upload id returned (0 for None) and whether the
\* inventory stored the file with the record
upload_image(item_id, image_path, exists, outcome) ==
    IF outcome = "no client" \/ ~exists
    THEN [ret |-> 0, stored |-> FALSE]
    ELSE CASE outcome = "created" -> [ret |-> 1, stored |-> TRUE]
           [] outcome = "created, none listed" -> [ret |-> 0, stored |-> TRUE]
           [] outcome \in {"refused", "raises"} -> [ret |-> 0, stored |-> FALSE]

\* create_asset_from_llm_data with the image: item_id is what create_item
\* returns (0 for None), image_path is None (JNull) or a path, exists is
\* os.path.exists(image_path).  Gives the id returned (0 for None) and
\* whether the image was stored with the record.
create_asset_with_image(template_id, llm_data, image_path, item_id, exists, outcome) ==
    IF ~IsDict(llm_data) \/ item_id = 0
    THEN [ret |-> 0, stored |-> FALSE]
    ELSE IF image_path # JNull /\ exists
         THEN [ret |-> item_id,
               stored |-> upload_image(item_id, image_path, exists,
                                       outcome).stored]
         ELSE [ret |-> item_id, stored |-> FALSE]

\* asset_data of save_to_elabftw: a result with its title
AssetData ==
    {JObj(Put(r, <<"title">>, JStr(t))) :
        r \in {EmptyObj, Put(EmptyObj, <<"name">>, JStr(<<"Beaker">>))},
        t \in {<<"Beaker">>, UntitledAsset}}

InitCommit ==
    /\ NoWindow
    /\ NoComponents
    /\ \E template_id \in {1, 2}, llm_data \in AssetData,
          image_path \in {JNull, JStr(<<"a.jpg">>), JStr(<<"b.jpg">>)} :
           call = Call("create_asset_from_llm_data",
                       [template_id |-> template_id, llm_data |-> llm_data,
                        image_path |-> image_path])

CreateAsset ==
    /\ call.fn = "create_asset_from_llm_data"
    /\ ~call.done
    /\ \E item_id \in {0} \cup AssetIds, exists \in BOOLEAN,
          outcome \in UploadOutcomes :
           Return(create_asset_with_image(call.arg.template_id,
                      call.arg.llm_data, call.arg.image_path, item_id,
                      exists, outcome))

NextCommit == CreateAsset

SpecCommit == InitCommit /\ [][NextCommit]_vars

(***************************************************************************)
(* Claim about the commit, checked under SpecCommit.                       *)
(***************************************************************************)
\* C25: whenever create_asset_from_llm_data returns a record id for a
\* draft that has an image, the image was stored with the record.
C25_CommitStoresImage ==
    /\ call.fn = "create_asset_from_llm_data"
    /\ call.done
    /\ call.ret.ret # 0
    /\ call.arg.image_path # JNull
    => call.ret.stored

(***************************************************************************)
(* LLMManager on its own.  llm_manager holds provider, config (a dict      *)
(* from keys to values) and llm: NoLLM, or the backend object with its     *)
(* class (named by the provider it serves) and the model, temperature and  *)
(* max_tokens it was built with.  constructed tells whether the            *)
(* constructor of the backend returns; otherwise it raises.                *)
(***************************************************************************)
NoLLM == [class |-> "None"]

\* dict.get(key, default)
Get(d, key, default) == IF key \in DOMAIN d THEN d[key] ELSE default

\* dict.update(u), as the dict d is afterwards
Update(d, u) ==
    [k \in DOMAIN d \cup DOMAIN u |-> IF k \in DOMAIN u THEN u[k] ELSE d[k]]

\* the model each backend takes when the configuration names none
DefaultModel(provider) ==
    CASE provider = "openai"    -> "gpt-4-vision-preview"
      [] provider = "anthropic" -> "claude-3-opus-20240229"
      [] provider = "ollama"    -> "llava"
      [] provider = "local"     -> ""

\* initialize_llm: the manager afterwards and the value returned
initialize_llm(m, constructed) ==
    IF m.provider \in Backends /\ constructed
    THEN [m |-> [m EXCEPT !.llm =
                    [class |-> m.provider,
                     model |-> IF m.provider = "local"
                               THEN Get(m.config, "local_model_path", "")
                               ELSE Get(m.config, "model",
                                        DefaultModel(m.provider)),
                     temperature |-> Get(m.config, "temperature", "0.7"),
                     max_tokens  |-> Get(m.config, "max_tokens", 4000)]],
          ret |-> TRUE]
    ELSE [m |-> m, ret |-> FALSE]

\* LLMManager(config)
LLMManager(config, constructed) ==
    initialize_llm([config |-> config, llm |-> NoLLM,
                    provider |-> Get(config, "provider", "openai")],
                   constructed).m

\* LLMManager.change_provider; config is None (NoLLM stands for it) or a
\* dict
change_provider_to(m, provider, config, constructed) ==
    initialize_llm([m EXCEPT !.provider = provider,
                             !.config = IF config = NoLLM THEN @
                                        ELSE Update(@, config)],
                   constructed)

\* get_settings
get_settings(m) ==
    [provider    |-> m.provider,
     model       |-> Get(m.config, "model", ""),
     temperature |-> Get(m.config, "temperature", "0.7"),
     max_tokens  |-> Get(m.config, "max_tokens", 4000),
     status      |-> IF m.llm # NoLLM THEN "initialized"
                     ELSE "not_initialized"]

\* the keys update_settings copies into self.config
SettingsKeys == {"model", "temperature", "max_tokens", "api_key",
                 "ollama_url", "local_model_path"}

\* update_settings: ret is the "success" of the dict returned
update_settings(m, settings, constructed) ==
    LET m1 == [m EXCEPT
                 !.provider = Get(settings, "provider", @),
                 !.config = Update(@, [k \in DOMAIN settings \cap SettingsKeys
                                         |-> settings[k]])]
    IN IF m.provider # m1.provider \/ "api_key" \in DOMAIN settings
       THEN initialize_llm(m1, constructed)
       ELSE [m |-> m1, ret |-> TRUE]

\* analyze_asset up to the request: the manager afterwards and the
\* backend whose analyze_image is called (NoLLM when the error dict is
\* returned instead)
analyze_asset_with(m, constructed) ==
    IF m.llm = NoLLM
    THEN LET r == initialize_llm(m, constructed) IN
         [m |-> r.m, ret |-> IF r.ret THEN r.m.llm ELSE NoLLM]
    ELSE [m |-> m, ret |-> m.llm]

\* the llm section of the configuration the manager is built with
LlmConfigs ==
    {[provider |-> "openai", model |-> "gpt-4-vision-preview"],
     [provider |-> "anthropic", temperature |-> "0.2"],
     [provider |-> "azure", model |-> "gpt-4o"]}

\* what update_settings is called with
SettingsUpdates ==
    {[model |-> "gpt-4o"], [provider |-> "anthropic"], [provider |-> "azure"],
     [temperature |-> "0.2", max_tokens |-> 1000],
     [api_key |-> "key", model |-> "gpt-4o"]}

InitLlm ==
    /\ NoWindow
    /\ call = NoCall
    /\ config_file = JNull /\ config_manager = JNull
    /\ qrcode_generator = JNull /\ camera_manager = JNull
    /\ preview = JNull /\ gui = JNull
    /\ ops = 0
    /\ \E config \in LlmConfigs, constructed \in BOOLEAN :
          llm_manager = LLMManager(config, constructed)

\* the manager is as the record r tells, one more operation is done
StoreLlm(r) ==
    /\ llm_manager' = r.m
    /\ ops' = ops + 1
    /\ UNCHANGED <<win_vars, config_file, config_manager, qrcode_generator,
                   camera_manager, preview, gui>>

ChangeProvider ==
    /\ ops < MaxOps
    /\ \E provider \in Providers, config \in {NoLLM} \cup LlmConfigs,
          constructed \in BOOLEAN :
          LET r == change_provider_to(llm_manager, provider, config,
                                      constructed)
          IN /\ call' = [fn |-> "change_provider", arg |-> provider,
                         done |-> TRUE, ret |-> r.ret]
             /\ StoreLlm(r)

UpdateSettings ==
    /\ ops < MaxOps
    /\ \E settings \in SettingsUpdates, constructed \in BOOLEAN :
          LET r == update_settings(llm_manager, settings, constructed) IN
          /\ call' = [fn |-> "update_settings", arg |-> settings,
                      done |-> TRUE, ret |-> r.ret]
          /\ StoreLlm(r)

AnalyzeAsset ==
    /\ ops < MaxOps
    /\ \E constructed \in BOOLEAN :
          LET r == analyze_asset_with(llm_manager, constructed) IN
          /\ call' = [fn |-> "analyze_asset",
                      arg |-> get_settings(llm_manager),
                      done |-> TRUE, ret |-> r.ret]
          /\ StoreLlm(r)

NextLlm == ChangeProvider \/ UpdateSettings \/ AnalyzeAsset

SpecLlm == InitLlm /\ [][NextLlm]_vars

(***************************************************************************)
(* Claims about LLMManager, checked under SpecLlm.                         *)
(***************************************************************************)
\* C27: after any sequence of change_provider and update_settings calls,
\* failing ones included, llm is absent or the backend of provider; and
\* analyze_asset does not run the backend of another provider while
\* get_settings reports the provider as initialized.
C27_ProviderAndBackendAgree ==
    /\ llm_manager.llm = NoLLM \/ llm_manager.llm.class = llm_manager.provider
    /\ /\ call.fn = "analyze_asset"
       /\ call.arg.status = "initialized"
       /\ call.ret # NoLLM
       => call.ret.class = call.arg.provider

\* C28: once update_settings has returned success, the backend that the
\* next analysis runs has the model, temperature and max_tokens of the
\* configuration, also when the update named neither provider nor api_key.
C28_BackendFollowsSettings ==
    /\ call.fn = "update_settings"
    /\ call.ret
    => \A constructed \in BOOLEAN :
           LET llm == analyze_asset_with(llm_manager, constructed).ret
               now == get_settings(llm_manager)
           IN llm # NoLLM =>
                  /\ "model" \in DOMAIN llm_manager.config =>
                         llm.model = now.model
                  /\ llm.temperature = now.temperature
                  /\ llm.max_tokens = now.max_tokens

(***************************************************************************)
(* The camera: the GUI thread (start_camera, capture_image, stop_camera)   *)
(* and the CameraThread worker, which share one CameraManager and take no  *)
(* lock.  Each thread moves in steps; what lies between two steps of a     *)
(* thread is the time the other thread can run in.  cv2's read() is one    *)
(* such stretch: a thread is inside it from the step that enters it to     *)
(* the step that leaves it.                                                *)
(*   camera_manager  camera: "None", "closed" (a VideoCapture that did not *)
(*                   open) or "open"; is_running; current_frame;           *)
(*                   last_error                                            *)
(*   preview         pc: "none" no thread, "started" after start(),        *)
(*                   "loop" at the while test, "read" inside read(),       *)
(*                   "done" after run() returned; running: self.running    *)
(*   gui             pc: "idle" in the event loop, "capture" inside a      *)
(*                   read() of capture_image, "pause" in its sleep,        *)
(*                   "wait" inside wait() of CameraThread.stop;            *)
(*                   i: reads of the countdown still to come;              *)
(*                   camera_thread: camera_thread is not None              *)
(***************************************************************************)
capture_delay == 2

\* CameraManager()
CameraManager == [camera |-> "None", is_running |-> FALSE,
                  current_frame |-> "None", last_error |-> "None"]

\* how initialize can end
InitializeOutcomes == {"opened", "not opened", "no frame"}

\* CameraManager.initialize: the manager afterwards and the value returned
initialize(cm, outcome) ==
    CASE outcome = "opened" ->
            [cm |-> [cm EXCEPT !.camera = "open", !.is_running = TRUE],
             ret |-> TRUE]
      [] outcome = "not opened" ->
            [cm |-> [cm EXCEPT !.camera = "closed",
                               !.last_error = "cannot open"],
             ret |-> FALSE]
      [] outcome = "no frame" ->       \* release() after the failed read
            [cm |-> [cm EXCEPT !.camera = "None", !.is_running = FALSE,
                               !.last_error = "cannot read"],
             ret |-> FALSE]

\* CameraManager.release
release(cm) ==
    IF cm.camera # "None"
    THEN [cm EXCEPT !.camera = "None", !.is_running = FALSE]
    ELSE cm

\* QThread.isRunning: from start() until run() has returned
isRunning(t) == t.pc \in {"started", "loop", "read"}

InitCamera ==
    /\ NoWindow
    /\ call = NoCall
    /\ config_file = JNull /\ config_manager = JNull
    /\ qrcode_generator = JNull /\ llm_manager = JNull
    /\ ops = 0
    /\ camera_manager = CameraManager
    /\ preview = [pc |-> "none", running |-> FALSE]
    /\ gui = [pc |-> "idle", i |-> 0, camera_thread |-> FALSE]

cam_rest == <<win_vars, call, config_file, config_manager, qrcode_generator,
              llm_manager, ops>>

\* start_camera, from __init__ or toggle_camera: initialize, then create
\* and start the worker
StartCamera ==
    /\ gui.pc = "idle"
    /\ ~gui.camera_thread
    /\ \E outcome \in InitializeOutcomes :
          LET r == initialize(camera_manager, outcome) IN
          /\ camera_manager' = r.cm
          /\ IF r.ret
             THEN /\ preview' = [pc |-> "started", running |-> FALSE]
                  /\ gui' = [gui EXCEPT !.camera_thread = TRUE]
             ELSE UNCHANGED <<preview, gui>>
    /\ UNCHANGED cam_rest

\* capture_image up to its first read(): the Capture button is enabled
\* from start_camera to stop_camera
CaptureBegin ==
    /\ gui.pc = "idle"
    /\ gui.camera_thread
    /\ \E outcome \in InitializeOutcomes :
          LET r == IF camera_manager.is_running
                   THEN [cm |-> camera_manager, ret |-> TRUE]
                   ELSE initialize(camera_manager, outcome)
          IN /\ camera_manager' = r.cm
             /\ gui' = IF r.ret
                       THEN [gui EXCEPT !.pc = "capture", !.i = capture_delay]
                       ELSE gui
    /\ UNCHANGED <<preview, cam_rest>>

\* a read() of capture_image returns: one of the countdown (then the
\* thread sleeps), or the last one
CaptureRead ==
    /\ gui.pc = "capture"
    /\ \E ret \in BOOLEAN :
          IF ~ret
          THEN /\ camera_manager' =
                      [camera_manager EXCEPT !.last_error = "capture failed"]
               /\ gui' = [gui EXCEPT !.pc = "idle", !.i = 0]
          ELSE IF gui.i > 0
          THEN /\ camera_manager' =
                      [camera_manager EXCEPT !.current_frame = "countdown"]
               /\ gui' = [gui EXCEPT !.pc = "pause", !.i = @ - 1]
          ELSE /\ camera_manager' =
                      [camera_manager EXCEPT !.current_frame = "image"]
               /\ gui' = [gui EXCEPT !.pc = "idle"]
    /\ UNCHANGED <<preview, cam_rest>>

\* time.sleep(1) of the countdown is over: capture_image enters the next
\* read()
CaptureNext ==
    /\ gui.pc = "pause"
    /\ gui' = [gui EXCEPT !.pc = "capture"]
    /\ UNCHANGED <<camera_manager, preview, cam_rest>>

\* stop_camera, from toggle_camera, apply_config or closeEvent, up to
\* wait(): CameraThread.stop clears running and waits; with no running
\* worker the camera is released at once
StopCamera ==
    /\ gui.pc = "idle"
    /\ gui.camera_thread
    /\ IF isRunning(preview)
       THEN /\ preview' = [preview EXCEPT !.running = FALSE]
            /\ gui' = [gui EXCEPT !.pc = "wait"]
            /\ UNCHANGED camera_manager
       ELSE /\ camera_manager' = release(camera_manager)
            /\ UNCHANGED <<preview, gui>>
    /\ UNCHANGED cam_rest

\* wait() returns because run() has returned; stop_camera drops the
\* thread and releases the camera
StopReturns ==
    /\ gui.pc = "wait"
    /\ preview.pc = "done"
    /\ gui' = [gui EXCEPT !.pc = "idle", !.camera_thread = FALSE]
    /\ preview' = [preview EXCEPT !.pc = "none"]
    /\ camera_manager' = release(camera_manager)
    /\ UNCHANGED cam_rest

\* CameraThread.run, its first statement
RunBegins ==
    /\ preview.pc = "started"
    /\ preview' = [pc |-> "loop", running |-> TRUE]
    /\ UNCHANGED <<camera_manager, gui, cam_rest>>

\* the while test, and read_frame up to read(): a camera that is not
\* running is initialized first
RunLoop ==
    /\ preview.pc = "loop"
    /\ IF ~preview.running
       THEN /\ preview' = [preview EXCEPT !.pc = "done"]
            /\ UNCHANGED camera_manager
       ELSE \E outcome \in InitializeOutcomes :
               LET r == IF ~camera_manager.is_running
                           \/ camera_manager.camera = "None"
                        THEN initialize(camera_manager, outcome)
                        ELSE [cm |-> camera_manager, ret |-> TRUE]
               IN /\ camera_manager' = r.cm
                  /\ preview' = IF r.ret THEN [preview EXCEPT !.pc = "read"]
                                ELSE preview
    /\ UNCHANGED <<gui, cam_rest>>

\* read() of read_frame returns; the frame or the error is emitted and
\* the thread sleeps
RunRead ==
    /\ preview.pc = "read"
    /\ \E ret \in BOOLEAN :
          camera_manager' =
              IF ret THEN [camera_manager EXCEPT !.current_frame = "frame"]
              ELSE [camera_manager EXCEPT !.last_error = "read failed"]
    /\ preview' = [preview EXCEPT !.pc = "loop"]
    /\ UNCHANGED <<gui, cam_rest>>

Worker == RunBegins \/ RunLoop \/ RunRead

NextCamera ==
    \/ StartCamera \/ CaptureBegin \/ CaptureRead \/ CaptureNext
    \/ StopCamera \/ StopReturns
    \/ RunBegins \/ RunLoop \/ RunRead

SpecCamera == InitCamera /\ [][NextCamera]_vars

\* the worker is a thread of its own and the operating system lets it
\* run; wait() returns once the worker has finished.  The operator clicks
\* when he likes.
SpecCameraFair ==
    /\ InitCamera /\ [][NextCamera]_vars
    /\ WF_vars(Worker)
    /\ WF_vars(StopReturns)
    /\ WF_vars(CaptureRead) /\ WF_vars(CaptureNext)

(***************************************************************************)
(* Claims about the camera.                                                *)
(***************************************************************************)
\* C22: the GUI thread and the worker are never both inside a read() on
\* the camera, and no thread releases the handle or opens it anew while
\* the other thread is inside a read().
C22_CameraUsedExclusively ==
    [][/\ ~(gui'.pc = "capture" /\ preview'.pc = "read")
       /\ camera_manager'.camera # camera_manager.camera =>
              /\ ~(preview.pc = "read" /\ preview'.pc = "read")
              /\ ~(gui.pc = "capture" /\ gui'.pc = "capture")]_vars

\* C29: once stop() has cleared running and waits, run() returns and
\* wait() returns: the GUI thread is back in its event loop.
C29_StopAlwaysStopsWorker ==
    (gui.pc = "wait") ~> (preview.pc = "none" /\ gui.pc = "idle")

====
